---- MODULE Spec2Model ----
(***************************************************************************)
(* The thread pool of src/4: tasks with an atomic state word, the ready    *)
(* queue guarded by queue_lock, the worker loop, and the push / join /     *)
(* detach / delete API.                                                    *)
(*                                                                         *)
(* Granularity.  Everything a thread does between pthread_mutex_lock and   *)
(* the matching unlock (or the pthread_cond_wait that releases the lock)   *)
(* is one action: the lock serialises these sections.  Every access to a   *)
(* task's state word made outside the lock (the worker's pickup CASes, the *)
(* joiner's wait and CAS, the detacher's CASes) is an action of its own.   *)
(* A futex wait is modelled by its outcome: the waiter proceeds once the   *)
(* word holds the awaited value.  The ready queue is modelled by the       *)
(* sequence of references stored in data[head .. tail).                    *)
(***************************************************************************)
EXTENDS Integers, Sequences, FiniteSets, TLC

(* Bounds of the model *)
NumTasks == 3
\* The ceilings of thread_pool.h, scaled down to what can be enumerated.
TPOOL_MAX_TASKS == 2
TPOOL_MAX_THREADS == 2
\* How many API calls the callers make in one run
MaxCalls == 5

\* Calls of circular_queue_push and circular_queue_pop
MaxQueueOps == 20

Tasks == 1 .. NumTasks
Workers == 1 .. TPOOL_MAX_THREADS
NoTask == 0
\* Values a caller passes as the task argument
Args == {0, 1}
\* The task function of the spec's scenario 1: f(x) = x + 1
task_function(x) == x + 1
\* Values a pointer-sized slot can hold
Ptrs == {0, 1, 2}
\* A slot is <<v>> once v was stored in it and <<>> while it is uninitialized
\* (thread_task_new leaves ret so): reading it then yields any value
Uninit == <<>>
ReadPtr(slot) == IF slot = Uninit THEN Ptrs ELSE {slot[1]}

TASK_STATE_CREATED == "CREATED"
TASK_STATE_PUSHED == "PUSHED"
TASK_STATE_PUSHED_GHOST == "PUSHED_GHOST"
TASK_STATE_RUNNING == "RUNNING"
TASK_STATE_RUNNING_GHOST == "RUNNING_GHOST"
TASK_STATE_COMPLETED == "COMPLETED"
TASK_STATE_JOINED == "JOINED"
task_state == {TASK_STATE_CREATED, TASK_STATE_PUSHED, TASK_STATE_PUSHED_GHOST,
               TASK_STATE_RUNNING, TASK_STATE_RUNNING_GHOST,
               TASK_STATE_COMPLETED, TASK_STATE_JOINED}

\* Return codes
OK == "ok"
NoReturn == <<"none", "none">>
TPOOL_ERR_TOO_MANY_TASKS == "too_many_tasks"
TPOOL_ERR_INVALID_REPUSH == "invalid_repush"
TPOOL_ERR_HAS_TASKS == "has_tasks"
TPOOL_ERR_TASK_NOT_PUSHED == "not_pushed"
TPOOL_ERR_TASK_IN_POOL == "in_pool"
TPOOL_ERR_TIMEOUT == "timeout"
TPOOL_ERR_INVALID_ARGUMENT == "invalid_argument"

VARIABLES
    state,          \* thread_task.state of each task
    arg,            \* thread_task.arg
    ret,            \* thread_task.ret
    freed,          \* whether the task's storage was passed to free()
    tmax,           \* thread_pool.tmax
    queue,          \* thread_pool.queue, oldest reference first
    spawned_count,  \* thread_pool.spawned_count
    free_count,     \* thread_pool.free_count
    deleted,        \* no pool exists: thread_pool_delete destroyed it, or (in
                    \* the specifications that begin before thread_pool_new)
                    \* none was created yet
    wpc,            \* position of each worker thread in thread_pool_worker
    wtask,          \* the worker's local `task`
    pc,             \* position of the thread that owns each task
    out,            \* the caller's variable that thread_task_join stores the result in
    rc,             \* <<function, code>> of the API call that returned in the last
                    \* step; NoReturn when the last step returned from no call
    aborted,        \* an assert() failed and the process was aborted
    ncalls,         \* API calls made so far
    cq,             \* struct circular_queue: dcapacity, head, tail and the
                    \* array `data` points to
    tw              \* the locals of a futexp_timed_wait_for call with a
                    \* timeout, the errno it leaves and its position

vars == <<state, arg, ret, freed, tmax, queue, spawned_count, free_count,
          deleted, wpc, wtask, pc, out, rc, aborted, ncalls, cq, tw>>
taskvars == <<state, arg, ret, freed>>
poolvars == <<tmax, queue, spawned_count, free_count, deleted>>
workervars == <<wpc, wtask>>
\* The layout of the queue's array and the clock readings of a timed wait,
\* which only the specifications of circular_queue.c and of the remaining-time
\* arithmetic of futex.c move
layoutvars == <<cq, tw>>

\* Tasks that were never pushed are interchangeable: the callers take them
\* in the order of their numbers
FirstUseInOrder(t) ==
    state[t] = TASK_STATE_CREATED =>
        \A u \in 1 .. t - 1 : state[u] # TASK_STATE_CREATED \/ freed[u]

\* A caller enters an API function
Call == ncalls < MaxCalls /\ ncalls' = ncalls + 1 /\ UNCHANGED layoutvars

----
(* circular_queue: the FIFO of references between head and tail *)

circular_queue_size(q) == Len(q)

\* A push that enters at the head
circular_queue_push_front(q, val) == <<val>> \o q

circular_queue_push(q, val) == Append(q, val)

circular_queue_front(q) == Head(q)

\* A pop that does not advance head
circular_queue_pop_keeps_head(q) == q

circular_queue_pop(q) == Tail(q)

InQueue(t) == \E i \in 1 .. Len(queue) : queue[i] = t

----
(* struct circular_queue as circular_queue.c lays it out *)

\* The initial capacity circular_queue_init asks for
CQ_INITIAL_CAPACITY == 8

CQ_ERR_NO_MEM == 1

\* An index that is advanced without wrapping around
NEXT_without_wrap(q, field) == q[field] + 1

NEXT(q, field) == (q[field] + 1) % q.dcapacity

\* A reallocation that leaves the elements where they were in the old array
cq_realloc_in_place(q, new_capacity) ==
    [dcapacity |-> new_capacity,
     head |-> q.head,
     tail |-> q.tail,
     data |-> [i \in 0 .. new_capacity - 1 |->
                  IF i < q.dcapacity THEN q.data[i] ELSE Uninit]]

\* The array malloc returns holds no value yet; the elements between head and
\* tail are copied to its start
cq_realloc(q, new_capacity) ==
    IF q.head <= q.tail
    THEN [dcapacity |-> new_capacity,
          head |-> 0,
          tail |-> q.tail - q.head,
          data |-> [i \in 0 .. new_capacity - 1 |->
                       IF i < q.tail - q.head THEN q.data[q.head + i]
                       ELSE Uninit]]
    ELSE LET first == q.dcapacity - q.head
             second == q.tail
         IN [dcapacity |-> new_capacity,
             head |-> 0,
             tail |-> first + second,
             data |-> [i \in 0 .. new_capacity - 1 |->
                          IF i < first THEN q.data[q.head + i]
                          ELSE IF i < first + second THEN q.data[i - first]
                          ELSE Uninit]]

circular_queue_init ==
    cq_realloc([dcapacity |-> 0, head |-> 0, tail |-> 0,
                data |-> [i \in {} |-> Uninit]],
               CQ_INITIAL_CAPACITY)

\* The element circular_queue_pop returns and the queue it leaves
cq_pop_result(q) == q.data[q.head]

cq_pop(q) == [q EXCEPT !.head = NEXT(q, "head")]

cq_is_full(q) == NEXT(q, "tail") = q.head

cq_push(q, val) ==
    LET r == IF cq_is_full(q) THEN cq_realloc(q, q.dcapacity * 2) ELSE q
    IN [r EXCEPT !.data[r.tail] = val, !.tail = NEXT(r, "tail")]

cq_size(q) ==
    IF q.head <= q.tail THEN q.tail - q.head
    ELSE q.dcapacity - q.head + q.tail

----
(* struct timespec and timespec_diff of futex.c *)

NSEC_PER_SEC == 1000 * 1000 * 1000

EINVAL == "EINVAL"
ETIMEDOUT == "ETIMEDOUT"
NoErrno == "none"

Timespec(sec, nsec) == [tv_sec |-> sec, tv_nsec |-> nsec]

\* No timed wait is in progress
NoTimedWait ==
    [timeout |-> Timespec(0, 0), start |-> Timespec(0, 0), now |-> Timespec(0, 0),
     remaining |-> Timespec(0, 0), errno |-> NoErrno, at |-> "none"]

----
(* thread_pool_new and thread_task_new *)

InitPoolAndTasks ==
    /\ state = [t \in Tasks |-> TASK_STATE_CREATED]
    /\ arg \in [Tasks -> Args]
    /\ ret = [t \in Tasks |-> Uninit]
    /\ freed = [t \in Tasks |-> FALSE]
    /\ tmax \in 1 .. TPOOL_MAX_THREADS
    /\ queue = <<>>
    /\ spawned_count = 0
    /\ free_count = 0
    /\ deleted = FALSE
    /\ wpc = [w \in Workers |-> "none"]
    /\ wtask = [w \in Workers |-> NoTask]
    /\ pc = [t \in Tasks |-> "idle"]
    /\ out = [t \in Tasks |-> Uninit]
    /\ rc = NoReturn
    /\ aborted = FALSE
    /\ ncalls = 0

InitAnyArgs ==
    /\ InitPoolAndTasks
    /\ cq = circular_queue_init
    /\ tw = NoTimedWait

Init ==
    /\ InitAnyArgs
    /\ arg = [t \in Tasks |-> t % 2]

\* The tasks exist and thread_pool_new was not called yet
InitNoPool ==
    /\ state = [t \in Tasks |-> TASK_STATE_CREATED]
    /\ arg = [t \in Tasks |-> t % 2]
    /\ ret = [t \in Tasks |-> Uninit]
    /\ freed = [t \in Tasks |-> FALSE]
    /\ tmax = 0
    /\ queue = <<>>
    /\ spawned_count = 0
    /\ free_count = 0
    /\ deleted = TRUE
    /\ wpc = [w \in Workers |-> "none"]
    /\ wtask = [w \in Workers |-> NoTask]
    /\ pc = [t \in Tasks |-> "idle"]
    /\ out = [t \in Tasks |-> Uninit]
    /\ rc = NoReturn
    /\ aborted = FALSE
    /\ ncalls = 0
    /\ cq = circular_queue_init
    /\ tw = NoTimedWait

\* The values thread_pool_new is called with
ThreadCounts == -1 .. TPOOL_MAX_THREADS + 1

\* An argument check without the ceiling
invalid_thread_count_no_ceiling(max_thread_count) == max_thread_count <= 0

\* line 180
invalid_thread_count(max_thread_count) ==
    max_thread_count <= 0 \/ max_thread_count > TPOOL_MAX_THREADS

\* thread_pool_new, lines 172-203, called while no pool exists.  The threads
\* of a pool that was deleted are gone; the new pool has its own array.
thread_pool_new(max_thread_count) ==
    /\ Call
    /\ ~aborted /\ deleted
    /\ IF invalid_thread_count(max_thread_count)
       THEN /\ rc' = <<"pool_new", TPOOL_ERR_INVALID_ARGUMENT>>
            /\ UNCHANGED <<poolvars, workervars>>
       ELSE /\ tmax' = max_thread_count
            /\ queue' = <<>>
            /\ spawned_count' = 0
            /\ free_count' = 0
            /\ deleted' = FALSE
            /\ wpc' = [w \in Workers |-> "none"]
            /\ wtask' = [w \in Workers |-> NoTask]
            /\ rc' = <<"pool_new", OK>>
    /\ UNCHANGED <<taskvars, pc, out, aborted>>

----
(* thread_pool_push_task: one critical section of queue_lock *)

\* The capacity test that counts a running task as a queue entry
queue_is_full_counting_running(q) == circular_queue_size(q) + 1 >= TPOOL_MAX_TASKS

\* The capacity test that lets one more task in
queue_is_full_above(q) == circular_queue_size(q) > TPOOL_MAX_TASKS

\* line 254: the capacity test
queue_is_full(q) == circular_queue_size(q) >= TPOOL_MAX_TASKS

\* An acceptance test that takes a task once only
push_accepts_created_only(s) == s = TASK_STATE_CREATED

\* An acceptance test that also takes a task nobody joined
push_accepts_completed(s) == s \in {TASK_STATE_CREATED, TASK_STATE_JOINED, TASK_STATE_COMPLETED}

\* lines 257, 262: the two compare-and-swaps into PUSHED succeed from these
push_accepts(s) == s \in {TASK_STATE_CREATED, TASK_STATE_JOINED}

\* The spawn test without the ceiling
should_spawn_unbounded(free, spawned, max) == free = 0

\* A spawn test that starts the first worker only
should_spawn_first_only(free, spawned, max) == spawned = 0

\* line 271: the spawn test
should_spawn(free, spawned, max) == free = 0 /\ spawned < max

\* A signal that unblocks nobody
cond_signal_lost(wp) == {wp}

\* pthread_cond_signal: unblocks one of the threads blocked on the condition,
\* if there is any
cond_signal(wp) ==
    IF \E w \in Workers : wp[w] = "waiting"
    THEN {[wp EXCEPT ![w] = "woken"] : w \in {x \in Workers : wp[x] = "waiting"}}
    ELSE {wp}

thread_pool_push_task(t) ==
    /\ Call
    /\ ~aborted /\ ~deleted
    /\ pc[t] = "idle" /\ ~freed[t]
    /\ FirstUseInOrder(t)
    /\ IF queue_is_full(queue)
       THEN /\ rc' = <<"push", TPOOL_ERR_TOO_MANY_TASKS>>
            /\ wpc' \in cond_signal(wpc)
            /\ UNCHANGED <<state, queue, spawned_count>>
       ELSE /\ IF push_accepts(state[t])
               THEN /\ state' = [state EXCEPT ![t] = TASK_STATE_PUSHED]
                    /\ queue' = circular_queue_push(queue, t)
                    /\ rc' = <<"push", OK>>
               ELSE /\ rc' = <<"push", TPOOL_ERR_INVALID_REPUSH>>
                    /\ UNCHANGED <<state, queue>>
            /\ IF should_spawn(free_count, spawned_count, tmax)
               THEN /\ spawned_count' = spawned_count + 1
                    /\ wpc' \in cond_signal([wpc EXCEPT ![spawned_count + 1] = "top"])
               ELSE /\ wpc' \in cond_signal(wpc)
                    /\ UNCHANGED spawned_count
    /\ UNCHANGED <<arg, ret, freed, tmax, free_count, deleted, wtask, pc, out, aborted>>

----
(* thread_pool_worker *)

\* The completion step that declares every finished task JOINED
finished_state_always_joined(s) == TASK_STATE_JOINED

\* lines 132-135: the state a finished task is moved to
finished_state(s) == IF s = TASK_STATE_RUNNING THEN TASK_STATE_COMPLETED ELSE TASK_STATE_JOINED

\* A worker that destroys every task it finished
worker_frees_always(s) == TRUE

\* A worker that destroys no task
worker_frees_never(s) == FALSE

\* lines 134-136: the worker destroys the task whose second completion
\* compare-and-swap succeeded
worker_frees(s) == s = TASK_STATE_RUNNING_GHOST

\* A worker that enters pthread_cond_wait without testing the queue size
worker_iteration_waits_untested(w) ==
    /\ UNCHANGED <<ncalls, layoutvars>>
    /\ ~aborted
    /\ wpc[w] = "top"
    /\ rc' = NoReturn
    /\ LET t == wtask[w]
       IN  /\ state' = IF t # NoTask
                        THEN [state EXCEPT ![t] = finished_state(state[t])]
                        ELSE state
           /\ freed' = IF t # NoTask /\ worker_frees(state[t])
                        THEN [freed EXCEPT ![t] = TRUE]
                        ELSE freed
    /\ free_count' = free_count + 1
    /\ wpc' = [wpc EXCEPT ![w] = "waiting"]
    /\ wtask' = [wtask EXCEPT ![w] = NoTask]
    /\ UNCHANGED <<arg, ret, tmax, queue, spawned_count, deleted, pc, out, aborted>>

\* lines 112-155, entered from the top of the loop: declare the previous task
\* finished, become free, and either block in pthread_cond_wait or take the
\* next task
worker_iteration(w) ==
    /\ UNCHANGED <<ncalls, layoutvars>>
    /\ ~aborted
    /\ wpc[w] = "top"
    /\ rc' = NoReturn
    /\ LET t == wtask[w]
           running == t # NoTask /\ state[t] = TASK_STATE_RUNNING
           ghost == t # NoTask /\ state[t] = TASK_STATE_RUNNING_GHOST
       IN  IF t # NoTask /\ ~running /\ ~ghost
           THEN \* line 139: assert(false)
                /\ aborted' = TRUE
                /\ UNCHANGED <<taskvars, poolvars, workervars, pc, out>>
           ELSE /\ state' = IF running \/ ghost
                            THEN [state EXCEPT ![t] = finished_state(state[t])]
                            ELSE state
                /\ freed' = IF t # NoTask /\ worker_frees(state[t])
                            THEN [freed EXCEPT ![t] = TRUE]
                            ELSE freed
                /\ IF circular_queue_size(queue) = 0
                   THEN /\ free_count' = free_count + 1
                        /\ wpc' = [wpc EXCEPT ![w] = "waiting"]
                        /\ wtask' = [wtask EXCEPT ![w] = NoTask]
                        /\ UNCHANGED queue
                   ELSE /\ wtask' = [wtask EXCEPT ![w] = circular_queue_front(queue)]
                        /\ queue' = circular_queue_pop(queue)
                        /\ wpc' = [wpc EXCEPT ![w] = "popped"]
                        /\ UNCHANGED free_count
                /\ UNCHANGED <<arg, ret, tmax, spawned_count, deleted, pc, out, aborted>>

\* pthread_cond_wait may return without a signal.  With the queue empty the
\* loop of line 148 re-enters the wait at once and nothing has changed, so
\* only the return that finds a task is a step.
spurious_wakeup(w) ==
    /\ UNCHANGED <<ncalls, layoutvars>>
    /\ ~aborted
    /\ wpc[w] = "waiting"
    /\ circular_queue_size(queue) > 0
    /\ wpc' = [wpc EXCEPT ![w] = "woken"]
    /\ rc' = NoReturn
    /\ UNCHANGED <<taskvars, poolvars, wtask, pc, out, aborted>>

\* lines 148-155, after pthread_cond_wait returned with the lock held again
worker_wakeup(w) ==
    /\ UNCHANGED <<ncalls, layoutvars>>
    /\ ~aborted
    /\ wpc[w] = "woken"
    /\ rc' = NoReturn
    /\ IF circular_queue_size(queue) = 0
       THEN /\ wpc' = [wpc EXCEPT ![w] = "waiting"]
            /\ UNCHANGED <<queue, free_count, wtask>>
       ELSE /\ free_count' = free_count - 1
            /\ wtask' = [wtask EXCEPT ![w] = circular_queue_front(queue)]
            /\ queue' = circular_queue_pop(queue)
            /\ wpc' = [wpc EXCEPT ![w] = "popped"]
    /\ UNCHANGED <<taskvars, tmax, spawned_count, deleted, pc, out, aborted>>

\* line 161: the first pickup compare-and-swap
worker_pickup(w) ==
    /\ UNCHANGED <<ncalls, layoutvars>>
    /\ ~aborted
    /\ wpc[w] = "popped"
    /\ rc' = NoReturn
    /\ IF state[wtask[w]] = TASK_STATE_PUSHED
       THEN /\ state' = [state EXCEPT ![wtask[w]] = TASK_STATE_RUNNING]
            /\ wpc' = [wpc EXCEPT ![w] = "run"]
       ELSE /\ wpc' = [wpc EXCEPT ![w] = "pickup_ghost"]
            /\ UNCHANGED state
    /\ UNCHANGED <<arg, ret, freed, poolvars, wtask, pc, out, aborted>>

\* lines 162-163: the second pickup compare-and-swap and the assertion
worker_pickup_ghost(w) ==
    /\ UNCHANGED <<ncalls, layoutvars>>
    /\ ~aborted
    /\ wpc[w] = "pickup_ghost"
    /\ rc' = NoReturn
    /\ IF state[wtask[w]] = TASK_STATE_PUSHED_GHOST
       THEN /\ state' = [state EXCEPT ![wtask[w]] = TASK_STATE_RUNNING_GHOST]
            /\ wpc' = [wpc EXCEPT ![w] = "run"]
            /\ UNCHANGED aborted
       ELSE /\ aborted' = TRUE
            /\ UNCHANGED <<state, wpc>>
    /\ UNCHANGED <<arg, ret, freed, poolvars, wtask, pc, out>>

\* The task function returns and its result is not stored
worker_run_drops_result(w) ==
    /\ UNCHANGED <<ncalls, layoutvars>>
    /\ ~aborted
    /\ wpc[w] = "run"
    /\ rc' = NoReturn
    /\ wpc' = [wpc EXCEPT ![w] = "top"]
    /\ UNCHANGED <<taskvars, poolvars, wtask, pc, out, aborted>>

\* A worker that may call the task function again after it returned
worker_run_again(w) ==
    /\ UNCHANGED <<ncalls, layoutvars>>
    /\ ~aborted
    /\ wpc[w] = "run"
    /\ rc' = NoReturn
    /\ ret' = [ret EXCEPT ![wtask[w]] = <<task_function(arg[wtask[w]])>>]
    /\ wpc' \in {wpc, [wpc EXCEPT ![w] = "top"]}
    /\ UNCHANGED <<state, arg, freed, poolvars, wtask, pc, out, aborted>>

\* line 166: the task function returns and its result is stored
worker_run(w) ==
    /\ UNCHANGED <<ncalls, layoutvars>>
    /\ ~aborted
    /\ wpc[w] = "run"
    /\ rc' = NoReturn
    /\ ret' = [ret EXCEPT ![wtask[w]] = <<task_function(arg[wtask[w]])>>]
    /\ wpc' = [wpc EXCEPT ![w] = "top"]
    /\ UNCHANGED <<state, arg, freed, poolvars, wtask, pc, out, aborted>>

----
(* thread_pool_delete *)

\* The test of line 211 without the queue
delete_fail_busy_only(q, spawned, free) == spawned - free

\* The test of line 211 without the busy workers
delete_fail_queue_only(q, spawned, free) == circular_queue_size(q)

\* line 211
delete_fail(q, spawned, free) == circular_queue_size(q) + (spawned - free)

thread_pool_delete ==
    /\ Call
    /\ ~aborted /\ ~deleted
    /\ IF delete_fail(queue, spawned_count, free_count) # 0
       THEN /\ rc' = <<"pool_delete", TPOOL_ERR_HAS_TASKS>>
            /\ UNCHANGED <<deleted, wpc>>
       ELSE \* lines 218-236: cancel and join the workers, destroy the pool
            /\ rc' = <<"pool_delete", OK>>
            /\ deleted' = TRUE
            /\ wpc' = [w \in Workers |-> IF w <= spawned_count THEN "cancelled" ELSE wpc[w]]
    /\ UNCHANGED <<taskvars, tmax, queue, spawned_count, free_count, wtask, pc, out, aborted>>

----
(* The task API, called by the thread that owns the task.  The owner calls  *)
(* one function at a time, never touches a task whose storage was freed,    *)
(* joins a task at most once per push, and after a successful detach calls  *)
(* nothing on the task but (as the misuse the push is specified for) push.  *)

IsGhost(t) == state[t] \in {TASK_STATE_PUSHED_GHOST, TASK_STATE_RUNNING_GHOST}

OwnerMayCall(t) ==
    /\ ~aborted
    /\ pc[t] = "idle" /\ ~freed[t] /\ ~IsGhost(t)
    /\ FirstUseInOrder(t)

\* A delete that also takes a task that is finished and not joined
delete_allowed_when_completed(s) ==
    s \in {TASK_STATE_CREATED, TASK_STATE_JOINED, TASK_STATE_COMPLETED}

\* line 310: the test on the loaded state
delete_allowed(s) == s \in {TASK_STATE_CREATED, TASK_STATE_JOINED}

\* lines 309-316: the load, then free or in_pool
task_delete_body(t) ==
    /\ IF delete_allowed(state[t])
       THEN /\ freed' = [freed EXCEPT ![t] = TRUE]
            /\ rc' = <<"task_delete", OK>>
       ELSE /\ rc' = <<"task_delete", TPOOL_ERR_TASK_IN_POOL>>
            /\ UNCHANGED freed
    /\ UNCHANGED <<state, arg, ret, poolvars, workervars, pc, out, aborted>>

\* thread_task_delete, lines 307-317
thread_task_delete(t) ==
    /\ Call
    /\ OwnerMayCall(t)
    /\ task_delete_body(t)

\* thread_task_join, lines 357-360: the precheck, then the wait begins
thread_task_join(t) ==
    /\ Call
    /\ OwnerMayCall(t)
    /\ state[t] # TASK_STATE_JOINED
    /\ IF state[t] = TASK_STATE_CREATED
       THEN /\ rc' = <<"join", TPOOL_ERR_TASK_NOT_PUSHED>>
            /\ UNCHANGED pc
       ELSE /\ pc' = [pc EXCEPT ![t] = "join_wait"]
            /\ rc' = NoReturn
    /\ UNCHANGED <<taskvars, poolvars, workervars, out, aborted>>

\* A wait that returns whatever the word holds
futexp_wait_for_returns_early(t, wait_for) == TRUE

\* futexp_wait_for(&task->state, wait_for) returns 0 once it has loaded the
\* awaited value (futex.c lines 56-58)
futexp_wait_for(t, wait_for) == state[t] = wait_for

\* line 360: the wait returns
join_wait_returns(t) ==
    /\ UNCHANGED <<ncalls, layoutvars>>
    /\ ~aborted
    /\ pc[t] = "join_wait"
    /\ futexp_wait_for(t, TASK_STATE_COMPLETED)
    /\ pc' = [pc EXCEPT ![t] = "join_cas"]
    /\ rc' = NoReturn
    /\ UNCHANGED <<taskvars, poolvars, workervars, out, aborted>>

\* lines 363-369: COMPLETED -> JOINED, the assertion, and the result is read
join_finish(t) ==
    /\ UNCHANGED <<ncalls, layoutvars>>
    /\ ~aborted
    /\ pc[t] = "join_cas"
    /\ IF state[t] = TASK_STATE_COMPLETED
       THEN /\ state' = [state EXCEPT ![t] = TASK_STATE_JOINED]
            /\ \E v \in ReadPtr(ret[t]) : out' = [out EXCEPT ![t] = <<v>>]
            /\ rc' = <<"join", OK>>
            /\ pc' = [pc EXCEPT ![t] = "idle"]
            /\ UNCHANGED aborted
       ELSE /\ aborted' = TRUE
            /\ rc' = NoReturn
            /\ UNCHANGED <<state, out, pc>>
    /\ UNCHANGED <<arg, ret, freed, poolvars, workervars>>

\* thread_task_timed_join without the test of line 378
thread_task_timed_join_no_precheck(t) ==
    /\ Call
    /\ OwnerMayCall(t)
    /\ state[t] # TASK_STATE_JOINED
    /\ pc' = [pc EXCEPT ![t] = "timed_join_wait"]
    /\ rc' = NoReturn
    /\ UNCHANGED <<taskvars, poolvars, workervars, out, aborted>>

\* thread_task_timed_join (built with NEED_TIMED_JOIN), lines 378-395: the
\* precheck, then the bounded wait begins
thread_task_timed_join(t) ==
    /\ Call
    /\ OwnerMayCall(t)
    /\ state[t] # TASK_STATE_JOINED
    /\ IF state[t] = TASK_STATE_CREATED
       THEN /\ rc' = <<"timed_join", TPOOL_ERR_TASK_NOT_PUSHED>>
            /\ UNCHANGED pc
       ELSE /\ pc' = [pc EXCEPT ![t] = "timed_join_wait"]
            /\ rc' = NoReturn
    /\ UNCHANGED <<taskvars, poolvars, workervars, out, aborted>>

\* futexp_timed_wait_for(&task->state, wait_for, timeout) gives up only
\* after a load that did not find the awaited value (futex.c lines 56-70):
\* whether the time is up when the word does not hold it
futexp_timed_wait_for_may_expire(t, wait_for) == state[t] # wait_for

\* A bounded wait that reports a timeout and consumes the completion
timed_join_expires_joining(t) ==
    /\ UNCHANGED <<ncalls, layoutvars>>
    /\ ~aborted
    /\ pc[t] = "timed_join_wait"
    /\ futexp_timed_wait_for_may_expire(t, TASK_STATE_COMPLETED)
    /\ state' = [state EXCEPT ![t] = TASK_STATE_JOINED]
    /\ pc' = [pc EXCEPT ![t] = "idle"]
    /\ rc' = <<"timed_join", TPOOL_ERR_TIMEOUT>>
    /\ UNCHANGED <<arg, ret, freed, poolvars, workervars, out, aborted>>

\* lines 395-399: the bounded wait elapsed, TPOOL_ERR_TIMEOUT is returned
timed_join_expires(t) ==
    /\ UNCHANGED <<ncalls, layoutvars>>
    /\ ~aborted
    /\ pc[t] = "timed_join_wait"
    /\ futexp_timed_wait_for_may_expire(t, TASK_STATE_COMPLETED)
    /\ pc' = [pc EXCEPT ![t] = "idle"]
    /\ rc' = <<"timed_join", TPOOL_ERR_TIMEOUT>>
    /\ UNCHANGED <<taskvars, poolvars, workervars, out, aborted>>

\* line 395: the bounded wait returns 0
timed_join_wait_returns(t) ==
    /\ UNCHANGED <<ncalls, layoutvars>>
    /\ ~aborted
    /\ pc[t] = "timed_join_wait"
    /\ futexp_wait_for(t, TASK_STATE_COMPLETED)
    /\ pc' = [pc EXCEPT ![t] = "timed_join_cas"]
    /\ rc' = NoReturn
    /\ UNCHANGED <<taskvars, poolvars, workervars, out, aborted>>

\* lines 401-407: COMPLETED -> JOINED, the assertion, and the result is read
timed_join_finish(t) ==
    /\ UNCHANGED <<ncalls, layoutvars>>
    /\ ~aborted
    /\ pc[t] = "timed_join_cas"
    /\ IF state[t] = TASK_STATE_COMPLETED
       THEN /\ state' = [state EXCEPT ![t] = TASK_STATE_JOINED]
            /\ \E v \in ReadPtr(ret[t]) : out' = [out EXCEPT ![t] = <<v>>]
            /\ rc' = <<"timed_join", OK>>
            /\ pc' = [pc EXCEPT ![t] = "idle"]
            /\ UNCHANGED aborted
       ELSE /\ aborted' = TRUE
            /\ rc' = NoReturn
            /\ UNCHANGED <<state, out, pc>>
    /\ UNCHANGED <<arg, ret, freed, poolvars, workervars>>

\* thread_task_detach, lines 418-421: the load and the first compare-and-swap.
\* CREATED is left only by the owner's own push, so the load and the CAS see
\* the same answer to "is it CREATED".
thread_task_detach(t) ==
    /\ Call
    /\ OwnerMayCall(t)
    /\ IF state[t] = TASK_STATE_CREATED
       THEN /\ rc' = <<"detach", TPOOL_ERR_TASK_NOT_PUSHED>>
            /\ UNCHANGED <<state, pc>>
       ELSE IF state[t] = TASK_STATE_PUSHED
       THEN /\ state' = [state EXCEPT ![t] = TASK_STATE_PUSHED_GHOST]
            /\ rc' = <<"detach", OK>>
            /\ UNCHANGED pc
       ELSE /\ pc' = [pc EXCEPT ![t] = "detach_running"]
            /\ rc' = NoReturn
            /\ UNCHANGED state
    /\ UNCHANGED <<arg, ret, freed, poolvars, workervars, out, aborted>>

\* A detach that gives up after its second compare-and-swap
detach_running_no_third_cas(t) ==
    /\ UNCHANGED <<ncalls, layoutvars>>
    /\ ~aborted
    /\ pc[t] = "detach_running"
    /\ IF state[t] = TASK_STATE_RUNNING
       THEN /\ state' = [state EXCEPT ![t] = TASK_STATE_RUNNING_GHOST]
            /\ rc' = <<"detach", OK>>
            /\ UNCHANGED aborted
            /\ pc' = [pc EXCEPT ![t] = "idle"]
       ELSE /\ aborted' = TRUE
            /\ rc' = NoReturn
            /\ UNCHANGED <<state, pc>>
    /\ UNCHANGED <<arg, ret, freed, poolvars, workervars, out>>

\* lines 422-423: RUNNING -> RUNNING_GHOST
detach_running(t) ==
    /\ UNCHANGED <<ncalls, layoutvars>>
    /\ ~aborted
    /\ pc[t] = "detach_running"
    /\ IF state[t] = TASK_STATE_RUNNING
       THEN /\ state' = [state EXCEPT ![t] = TASK_STATE_RUNNING_GHOST]
            /\ rc' = <<"detach", OK>>
            /\ pc' = [pc EXCEPT ![t] = "idle"]
       ELSE /\ pc' = [pc EXCEPT ![t] = "detach_completed"]
            /\ rc' = NoReturn
            /\ UNCHANGED state
    /\ UNCHANGED <<arg, ret, freed, poolvars, workervars, out, aborted>>

\* lines 424-429: COMPLETED -> JOINED and the task is freed, or assert(false)
detach_completed(t) ==
    /\ UNCHANGED <<ncalls, layoutvars>>
    /\ ~aborted
    /\ pc[t] = "detach_completed"
    /\ IF state[t] = TASK_STATE_COMPLETED
       THEN /\ state' = [state EXCEPT ![t] = TASK_STATE_JOINED]
            /\ freed' = [freed EXCEPT ![t] = TRUE]
            /\ rc' = <<"detach", OK>>
            /\ pc' = [pc EXCEPT ![t] = "idle"]
            /\ UNCHANGED aborted
       ELSE /\ aborted' = TRUE
            /\ rc' = NoReturn
            /\ UNCHANGED <<state, freed, pc>>
    /\ UNCHANGED <<arg, ret, poolvars, workervars, out>>

\* The caller changes what the argument refers to; it may do so only while
\* it owns the task outright, between a join and a repush (before the first
\* push the argument is the one the task was created with)
mutate_argument(t, v) ==
    /\ UNCHANGED <<ncalls, layoutvars>>
    /\ OwnerMayCall(t)
    /\ state[t] = TASK_STATE_JOINED
    /\ v # arg[t]
    /\ arg' = [arg EXCEPT ![t] = v]
    /\ rc' = NoReturn
    /\ UNCHANGED <<state, ret, freed, poolvars, workervars, pc, out, aborted>>

----
WorkerStep(w) ==
    \/ worker_iteration(w)
    \/ worker_wakeup(w)
    \/ worker_pickup(w)
    \/ worker_pickup_ghost(w)
    \/ worker_run(w)

JoinStep(t) ==
    \/ join_wait_returns(t)
    \/ join_finish(t)

DetachStep(t) ==
    \/ detach_running(t)
    \/ detach_completed(t)

Next ==
    \/ \E t \in Tasks : thread_pool_push_task(t)
    \/ thread_pool_delete
    \/ \E w \in Workers : WorkerStep(w)
    \/ \E w \in Workers : spurious_wakeup(w)
    \/ \E t \in Tasks : thread_task_join(t)
    \/ \E t \in Tasks : JoinStep(t)
    \/ \E t \in Tasks : thread_task_detach(t)
    \/ \E t \in Tasks : DetachStep(t)
    \/ \E t \in Tasks : thread_task_delete(t)

Spec == Init /\ [][Next]_vars

----
(* Callers that follow the protocol: every task is pushed when its owner    *)
(* holds it (never pushed, or joined) and joined after its push.            *)

caller_push(t) ==
    /\ state[t] \in {TASK_STATE_CREATED, TASK_STATE_JOINED}
    /\ thread_pool_push_task(t)

caller_join(t) == state[t] # TASK_STATE_CREATED /\ thread_task_join(t)

\* With no detach there is no ghost, and the second pickup compare-and-swap
\* is never reached
ProtocolWorkerStep(w) ==
    \/ worker_iteration(w)
    \/ worker_wakeup(w)
    \/ worker_pickup(w)
    \/ worker_run(w)

ProtocolNext ==
    \/ \E t \in Tasks : caller_push(t)
    \/ \E t \in Tasks : caller_join(t)
    \/ \E t \in Tasks : JoinStep(t)
    \/ \E w \in Workers : ProtocolWorkerStep(w)
    \/ \E w \in Workers : spurious_wakeup(w)
    \/ thread_pool_delete

ProtocolSpec == Init /\ [][ProtocolNext]_vars

\* The same callers, with tasks created with any argument, and an argument
\* changed only while the owner holds the task
DataNext ==
    \/ ProtocolNext
    \/ \E t \in Tasks, v \in Args : mutate_argument(t, v)

DataSpec == InitAnyArgs /\ [][DataNext]_vars

\* Threads are scheduled fairly: a worker or a joiner that can take its next
\* step eventually takes it.  A spurious wakeup is never owed.
FairSpec ==
    /\ ProtocolSpec
    /\ \A w \in Workers : WF_vars(ProtocolWorkerStep(w))
    /\ \A t \in Tasks : WF_vars(JoinStep(t))

\* A caller that pushes a finished task again without having joined it
caller_push_unjoined(t) ==
    /\ state[t] = TASK_STATE_COMPLETED
    /\ thread_pool_push_task(t)

RepushNext ==
    \/ DataNext
    \/ \E t \in Tasks : caller_push_unjoined(t)

RepushSpec == InitAnyArgs /\ [][RepushNext]_vars

\* The same callers, beginning before the pool is created
NewNext ==
    \/ \E max_thread_count \in ThreadCounts : thread_pool_new(max_thread_count)
    \/ ProtocolNext

NewSpec == InitNoPool /\ [][NewNext]_vars

----
(* Callers that follow the protocol and may also detach a task they pushed  *)
(* and have not joined.                                                     *)

caller_detach(t) ==
    /\ state[t] \in {TASK_STATE_PUSHED, TASK_STATE_RUNNING, TASK_STATE_COMPLETED}
    /\ thread_task_detach(t)

DetachProtocolNext ==
    \/ \E t \in Tasks : caller_push(t)
    \/ \E t \in Tasks : caller_join(t)
    \/ \E t \in Tasks : caller_detach(t)
    \/ \E t \in Tasks : JoinStep(t)
    \/ \E t \in Tasks : DetachStep(t)
    \/ \E w \in Workers : WorkerStep(w)
    \/ \E w \in Workers : spurious_wakeup(w)
    \/ thread_pool_delete

\* Fair scheduling of the workers, the joiners and the detachers
DetachFairSpec ==
    /\ Init /\ [][DetachProtocolNext]_vars
    /\ \A w \in Workers : WF_vars(WorkerStep(w))
    /\ \A t \in Tasks : WF_vars(JoinStep(t))
    /\ \A t \in Tasks : WF_vars(DetachStep(t))

----
(* The worker's critical section taken apart at its two completion          *)
(* compare-and-swaps (lines 132 and 134), so that a detach, which takes no  *)
(* lock, can fall between them.  While a worker is inside the section it    *)
(* holds queue_lock and no other section begins.                            *)

\* A worker that unlocks only after the task function has returned
lock_kept_through_task == {"complete_second", "section", "popped", "run"}

\* The positions between pthread_mutex_lock (line 112) and
\* pthread_cleanup_pop(1) (line 155) at which a step can end
LockPositions == {"complete_second", "section"}

QueueLockHeld == \E w \in Workers : wpc[w] \in LockPositions

\* The completion compare-and-swaps tried in the opposite order
completion_order_reversed(k) ==
    IF k = 1 THEN TASK_STATE_RUNNING_GHOST ELSE TASK_STATE_RUNNING

\* lines 132, 134: the state the k-th completion compare-and-swap expects
completion_order(k) ==
    IF k = 1 THEN TASK_STATE_RUNNING ELSE TASK_STATE_RUNNING_GHOST

\* lines 112-133: the lock is taken and the first compare-and-swap is tried
worker_complete_first(w) ==
    /\ UNCHANGED <<ncalls, layoutvars>>
    /\ ~aborted
    /\ ~QueueLockHeld
    /\ wpc[w] = "top" /\ wtask[w] # NoTask
    /\ rc' = NoReturn
    /\ LET t == wtask[w]
       IN  IF state[t] = completion_order(1)
           THEN /\ state' = [state EXCEPT ![t] = finished_state(state[t])]
                /\ freed' = IF worker_frees(state[t])
                            THEN [freed EXCEPT ![t] = TRUE]
                            ELSE freed
                /\ wpc' = [wpc EXCEPT ![w] = "section"]
           ELSE /\ wpc' = [wpc EXCEPT ![w] = "complete_second"]
                /\ UNCHANGED <<state, freed>>
    /\ UNCHANGED <<arg, ret, poolvars, wtask, pc, out, aborted>>

\* lines 134-140: the second compare-and-swap, or assert(false)
worker_complete_second(w) ==
    /\ UNCHANGED <<ncalls, layoutvars>>
    /\ ~aborted
    /\ wpc[w] = "complete_second"
    /\ rc' = NoReturn
    /\ LET t == wtask[w]
       IN  IF state[t] = completion_order(2)
           THEN /\ state' = [state EXCEPT ![t] = finished_state(state[t])]
                /\ freed' = IF worker_frees(state[t])
                            THEN [freed EXCEPT ![t] = TRUE]
                            ELSE freed
                /\ wpc' = [wpc EXCEPT ![w] = "section"]
                /\ UNCHANGED aborted
           ELSE /\ aborted' = TRUE
                /\ UNCHANGED <<state, freed, wpc>>
    /\ UNCHANGED <<arg, ret, poolvars, wtask, pc, out>>

\* lines 147-155: the rest of the section
worker_section(w) ==
    /\ UNCHANGED <<ncalls, layoutvars>>
    /\ ~aborted
    /\ wpc[w] = "section"
    /\ rc' = NoReturn
    /\ IF circular_queue_size(queue) = 0
       THEN /\ free_count' = free_count + 1
            /\ wpc' = [wpc EXCEPT ![w] = "waiting"]
            /\ wtask' = [wtask EXCEPT ![w] = NoTask]
            /\ UNCHANGED queue
       ELSE /\ wtask' = [wtask EXCEPT ![w] = circular_queue_front(queue)]
            /\ queue' = circular_queue_pop(queue)
            /\ wpc' = [wpc EXCEPT ![w] = "popped"]
            /\ UNCHANGED free_count
    /\ UNCHANGED <<taskvars, tmax, spawned_count, deleted, pc, out, aborted>>

\* The first iteration of a worker, which has no task to declare finished
worker_first_iteration(w) == wtask[w] = NoTask /\ worker_iteration(w)

SplitWorkerStep(w) ==
    \/ ~QueueLockHeld /\ worker_first_iteration(w)
    \/ ~QueueLockHeld /\ worker_wakeup(w)
    \/ worker_complete_first(w)
    \/ worker_complete_second(w)
    \/ worker_section(w)
    \/ worker_pickup(w)
    \/ worker_pickup_ghost(w)
    \/ worker_run(w)

SplitNext ==
    \/ \E t \in Tasks : ~QueueLockHeld /\ caller_push(t)
    \/ ~QueueLockHeld /\ thread_pool_delete
    \/ \E t \in Tasks : caller_join(t)
    \/ \E t \in Tasks : caller_detach(t)
    \/ \E t \in Tasks : JoinStep(t)
    \/ \E t \in Tasks : DetachStep(t)
    \/ \E w \in Workers : SplitWorkerStep(w)
    \/ \E w \in Workers : spurious_wakeup(w)

SplitSpec == Init /\ [][SplitNext]_vars

----
(* A task function that uses the pool: the function of task 1 pushes task   *)
(* NestedTask to the pool it runs in and returns after that push was        *)
(* accepted.  No other thread pushes that task.                             *)

NestedTask == 2

\* The function of the worker's task calls thread_pool_push_task
function_push(w) ==
    /\ wpc[w] = "run" /\ wtask[w] = 1
    /\ state[NestedTask] = TASK_STATE_CREATED
    /\ ~QueueLockHeld
    /\ thread_pool_push_task(NestedTask)

\* line 166: the function returns
function_return(w) ==
    /\ wtask[w] = 1 => state[NestedTask] # TASK_STATE_CREATED
    /\ worker_run(w)

NestedWorkerStep(w) ==
    \/ ~QueueLockHeld /\ worker_first_iteration(w)
    \/ ~QueueLockHeld /\ worker_wakeup(w)
    \/ worker_complete_first(w)
    \/ worker_complete_second(w)
    \/ worker_section(w)
    \/ worker_pickup(w)
    \/ worker_pickup_ghost(w)
    \/ function_push(w)
    \/ function_return(w)

\* Of the calls of a run, one is the function's
CallerMayCall ==
    ncalls + 1 < MaxCalls \/ state[NestedTask] # TASK_STATE_CREATED

NestedNext ==
    \/ \E t \in Tasks \ {NestedTask} :
          CallerMayCall /\ ~QueueLockHeld /\ caller_push(t)
    \/ CallerMayCall /\ ~QueueLockHeld /\ thread_pool_delete
    \/ \E t \in Tasks : CallerMayCall /\ caller_join(t)
    \/ \E t \in Tasks : CallerMayCall /\ caller_detach(t)
    \/ \E t \in Tasks : JoinStep(t)
    \/ \E t \in Tasks : DetachStep(t)
    \/ \E w \in Workers : NestedWorkerStep(w)
    \/ \E w \in Workers : spurious_wakeup(w)

\* Fair scheduling of the workers (the task functions run in them), the
\* joiners and the detachers
NestedSpec ==
    /\ Init /\ [][NestedNext]_vars
    /\ \A w \in Workers : WF_vars(NestedWorkerStep(w))
    /\ \A t \in Tasks : WF_vars(JoinStep(t))
    /\ \A t \in Tasks : WF_vars(DetachStep(t))

----
(* The build with NEED_TIMED_JOIN *)

TimedJoinStep(t) ==
    \/ timed_join_expires(t)
    \/ timed_join_wait_returns(t)
    \/ timed_join_finish(t)

TimedNext ==
    \/ Next
    \/ \E t \in Tasks : thread_task_timed_join(t)
    \/ \E t \in Tasks : TimedJoinStep(t)

TimedSpec == Init /\ [][TimedNext]_vars

caller_timed_join(t) == state[t] # TASK_STATE_CREATED /\ thread_task_timed_join(t)

TimedProtocolNext ==
    \/ ProtocolNext
    \/ \E t \in Tasks : caller_timed_join(t)
    \/ \E t \in Tasks : TimedJoinStep(t)

\* Fair scheduling of the workers and of the callers inside a join; a timed
\* join that is blocked eventually returns or gives up
TimedFairSpec ==
    /\ Init /\ [][TimedProtocolNext]_vars
    /\ \A w \in Workers : WF_vars(ProtocolWorkerStep(w))
    /\ \A t \in Tasks : WF_vars(JoinStep(t))
    /\ \A t \in Tasks : WF_vars(TimedJoinStep(t))

----
(* The futex of the state word in steps: the loop of futexp_timed_wait_for  *)
(* (futex.c lines 49-85: the load, the FUTEX_WAIT system call that compares *)
(* the word with the loaded value, the sleep), entered by thread_task_join  *)
(* without a timeout and by thread_task_timed_join with one, and            *)
(* atomic_cex_state as the compare-and-swap followed by a separate          *)
(* FUTEX_WAKE.  The position of the waiting thread includes its local       *)
(* `cur` and whether it has a timeout.  A task has one owner, so its owner  *)
(* is the only thread that can sleep on its word.                           *)

\* The value of `cur` at each position inside futexp_timed_wait (line 74)
futex_cur ==
    ("futex_wait_PUSHED" :> TASK_STATE_PUSHED) @@
    ("futex_wait_RUNNING" :> TASK_STATE_RUNNING) @@
    ("timed_futex_wait_PUSHED" :> TASK_STATE_PUSHED) @@
    ("timed_futex_wait_RUNNING" :> TASK_STATE_RUNNING)

FutexLoopTop == {"join_wait", "timed_join_wait"}
FutexAsleep == {"futex_asleep", "timed_futex_asleep"}

\* The positions of a call with timeout # NULL
FutexTimed(p) ==
    p \in {"timed_join_wait", "timed_futex_wait_PUSHED",
           "timed_futex_wait_RUNNING", "timed_futex_asleep"}

\* line 49: the top of the loop
futex_loop_top(p) == IF FutexTimed(p) THEN "timed_join_wait" ELSE "join_wait"

\* line 58: return 0, to the caller's compare-and-swap
futex_return_0(p) == IF FutexTimed(p) THEN "timed_join_cas" ELSE "join_cas"

\* line 74: inside futexp_timed_wait(uaddr, cur, ...)
futex_wait_position(p, cur) ==
    CHOOSE q \in DOMAIN futex_cur : futex_cur[q] = cur /\ FutexTimed(q) = FutexTimed(p)

\* blocked in FUTEX_WAIT
futex_asleep(p) == IF FutexTimed(p) THEN "timed_futex_asleep" ELSE "futex_asleep"

\* A load that takes any value of the word for the awaited one
futex_load_accepts_any(cur, wait_for) == TRUE

\* line 57
futex_load_accepts(cur, wait_for) == cur = wait_for

\* futex.c lines 56-58 and 74: the load; return 0 on the awaited value, else
\* call FUTEX_WAIT with the loaded value
futex_load(t) ==
    /\ UNCHANGED <<ncalls, layoutvars>>
    /\ ~aborted
    /\ pc[t] \in FutexLoopTop
    /\ pc' = [pc EXCEPT ![t] = IF futex_load_accepts(state[t], TASK_STATE_COMPLETED)
                                THEN futex_return_0(pc[t])
                                ELSE futex_wait_position(pc[t], state[t])]
    /\ rc' = NoReturn
    /\ UNCHANGED <<taskvars, poolvars, workervars, out, aborted>>

\* FUTEX_WAIT: the kernel blocks the caller only if the word still holds val
futex_wait_blocks(word, val) == word = val

\* futex.c lines 74-80, entering the system call: the thread sleeps, or the
\* call fails with EAGAIN (or with EINTR at once) and the loop continues
futex_wait_enter(t) ==
    /\ UNCHANGED <<ncalls, layoutvars>>
    /\ ~aborted
    /\ pc[t] \in DOMAIN futex_cur
    /\ \/ /\ futex_wait_blocks(state[t], futex_cur[pc[t]])
          /\ pc' = [pc EXCEPT ![t] = futex_asleep(pc[t])]
       \/ pc' = [pc EXCEPT ![t] = futex_loop_top(pc[t])]
    /\ rc' = NoReturn
    /\ UNCHANGED <<taskvars, poolvars, workervars, out, aborted>>

\* futex.c lines 78-80: a signal interrupts the sleep (EINTR)
futex_wait_interrupted(t) ==
    /\ UNCHANGED <<ncalls, layoutvars>>
    /\ ~aborted
    /\ pc[t] \in FutexAsleep
    /\ pc' = [pc EXCEPT ![t] = futex_loop_top(pc[t])]
    /\ rc' = NoReturn
    /\ UNCHANGED <<taskvars, poolvars, workervars, out, aborted>>

\* futex.c lines 81-83 and thread_pool.c lines 396-399: the kernel ends the
\* sleep with ETIMEDOUT and thread_task_timed_join returns TPOOL_ERR_TIMEOUT
futex_wait_times_out(t) ==
    /\ UNCHANGED <<ncalls, layoutvars>>
    /\ ~aborted
    /\ pc[t] = "timed_futex_asleep"
    /\ pc' = [pc EXCEPT ![t] = "idle"]
    /\ rc' = <<"timed_join", TPOOL_ERR_TIMEOUT>>
    /\ UNCHANGED <<taskvars, poolvars, workervars, out, aborted>>

\* A FUTEX_WAKE that wakes nobody
futexp_wake_nobody(positions, t) == positions

\* futexp_wake(&task->state, INT_MAX): every thread asleep on the word of t
\* returns from FUTEX_WAIT with 0 and continues its loop (lines 75-77)
futexp_wake(positions, t) ==
    [positions EXCEPT ![t] = IF @ \in FutexAsleep THEN futex_loop_top(@) ELSE @]

\* line 161 up to the compare-and-swap inside atomic_cex_state (line 87)
futex_worker_pickup(w) ==
    /\ UNCHANGED <<ncalls, layoutvars>>
    /\ ~aborted
    /\ wpc[w] = "popped"
    /\ rc' = NoReturn
    /\ IF state[wtask[w]] = TASK_STATE_PUSHED
       THEN /\ state' = [state EXCEPT ![wtask[w]] = TASK_STATE_RUNNING]
            /\ wpc' = [wpc EXCEPT ![w] = "pickup_wake"]
       ELSE /\ wpc' = [wpc EXCEPT ![w] = "pickup_ghost"]
            /\ UNCHANGED state
    /\ UNCHANGED <<arg, ret, freed, poolvars, wtask, pc, out, aborted>>

\* lines 112-132 up to the compare-and-swap inside atomic_cex_state
futex_worker_complete(w) ==
    /\ UNCHANGED <<ncalls, layoutvars>>
    /\ ~aborted
    /\ \A x \in Workers : wpc[x] \notin {"complete_wake", "section"}
    /\ wpc[w] = "top" /\ wtask[w] # NoTask
    /\ rc' = NoReturn
    /\ IF state[wtask[w]] = TASK_STATE_RUNNING
       THEN /\ state' = [state EXCEPT ![wtask[w]] = TASK_STATE_COMPLETED]
            /\ wpc' = [wpc EXCEPT ![w] = "complete_wake"]
       ELSE /\ wpc' = [wpc EXCEPT ![w] = "complete_second"]
            /\ UNCHANGED state
    /\ UNCHANGED <<arg, ret, freed, poolvars, wtask, pc, out, aborted>>

\* lines 88-89: the compare-and-swap succeeded and the waiters are woken
futex_worker_wake(w) ==
    /\ UNCHANGED <<ncalls, layoutvars>>
    /\ ~aborted
    /\ wpc[w] \in {"pickup_wake", "complete_wake"}
    /\ pc' = futexp_wake(pc, wtask[w])
    /\ wpc' = [wpc EXCEPT ![w] = IF @ = "pickup_wake" THEN "run" ELSE "section"]
    /\ rc' = NoReturn
    /\ UNCHANGED <<taskvars, poolvars, wtask, out, aborted>>

FutexLockFree == \A x \in Workers : wpc[x] \notin {"complete_wake", "section"}

FutexWorkerStep(w) ==
    \/ FutexLockFree /\ worker_first_iteration(w)
    \/ FutexLockFree /\ worker_wakeup(w)
    \/ futex_worker_complete(w)
    \/ futex_worker_pickup(w)
    \/ futex_worker_wake(w)
    \/ worker_section(w)
    \/ worker_run(w)

FutexJoinStep(t) ==
    \/ futex_load(t)
    \/ futex_wait_enter(t)
    \/ join_finish(t)

FutexNext ==
    \/ \E t \in Tasks : FutexLockFree /\ caller_push(t)
    \/ FutexLockFree /\ thread_pool_delete
    \/ \E t \in Tasks : caller_join(t)
    \/ \E t \in Tasks : FutexJoinStep(t)
    \/ \E t \in Tasks : futex_wait_interrupted(t)
    \/ \E w \in Workers : FutexWorkerStep(w)
    \/ \E w \in Workers : spurious_wakeup(w)

\* Fair scheduling of the workers and of the joiners; an interrupt is never
\* owed
FutexSpec ==
    /\ Init /\ [][FutexNext]_vars
    /\ \A w \in Workers : WF_vars(FutexWorkerStep(w))
    /\ \A t \in Tasks : WF_vars(FutexJoinStep(t))

\* The owners also delete their tasks; the compare-and-swap of a worker and
\* the FUTEX_WAKE that follows it are separate steps, as above
FreeNext ==
    \/ FutexNext
    \/ \E t \in Tasks : thread_task_delete(t)

FreeSpec == Init /\ [][FreeNext]_vars

\* The build with NEED_TIMED_JOIN: joins with and without a timeout
FutexTimedNext ==
    \/ FutexNext
    \/ \E t \in Tasks : caller_timed_join(t)
    \/ \E t \in Tasks : timed_join_finish(t)
    \/ \E t \in Tasks : timed_join_expires(t)
    \/ \E t \in Tasks : futex_wait_times_out(t)

FutexTimedSpec == Init /\ [][FutexTimedNext]_vars

----
(* thread_pool_delete in steps (lines 208-236): the check under the lock,   *)
(* pthread_cancel of each spawned worker in turn, pthread_join of each in   *)
(* turn, and the destruction; and the cancelled worker in steps: inside     *)
(* pthread_cond_wait it takes queue_lock again before its clean-up handler  *)
(* deferred_mutex_unlock (lines 93-97, pushed at line 119) runs, then it    *)
(* terminates.  No push is issued once the check has passed.  The position  *)
(* of the deleting thread is read off the workers: it cancels the lowest    *)
(* worker not yet cancelled, then joins the lowest worker not yet joined.   *)
(* Between the unlock of line 212 and the first pthread_cancel only steps   *)
(* of still-free workers can fall, and they commute with the check, so the  *)
(* check and the first pthread_cancel are one step.                         *)

Spawned == 1 .. spawned_count

ShutdownPositions ==
    {"cancel_requested", "cancel_locked", "terminated", "terminated_locked",
     "cancelled"}

\* Callers that push while thread_pool_delete cancels and joins the workers
shutdown_not_awaited == FALSE

\* thread_pool_delete has passed its check
ShutdownBegun == \E w \in Workers : wpc[w] \in ShutdownPositions

\* queue_lock is held by a cancelled worker
ShutdownLockHeld == \E w \in Workers : wpc[w] \in {"cancel_locked", "terminated_locked"}

\* A worker cancelled with no clean-up handler: it terminates with the lock
no_cleanup_handler(w) == "terminated_locked"

\* lines 93-97 and 119: the handler unlocks queue_lock, the thread terminates
deferred_mutex_unlock(w) == "terminated"

\* pthread_cancel(pool->threads[w]), lines 218-221
pthread_cancel(positions, w) == [positions EXCEPT ![w] = "cancel_requested"]

\* lines 208-219: the check passes and the first worker is cancelled
pool_delete_check(w) ==
    /\ Call
    /\ ~aborted /\ ~deleted /\ ~ShutdownBegun /\ ~ShutdownLockHeld
    /\ delete_fail(queue, spawned_count, free_count) = 0
    /\ w = 1 /\ w \in Spawned
    /\ wpc' = pthread_cancel(wpc, w)
    /\ rc' = NoReturn
    /\ UNCHANGED <<taskvars, poolvars, wtask, pc, out, aborted>>

\* lines 218-221: the next worker is cancelled
pool_delete_cancel(w) ==
    /\ UNCHANGED <<ncalls, layoutvars>>
    /\ ~aborted /\ ~deleted /\ ShutdownBegun
    /\ w \in Spawned
    /\ wpc[w] \notin ShutdownPositions
    /\ \A x \in 1 .. w - 1 : wpc[x] \in ShutdownPositions
    /\ wpc' = pthread_cancel(wpc, w)
    /\ rc' = NoReturn
    /\ UNCHANGED <<taskvars, poolvars, wtask, pc, out, aborted>>

\* lines 222-236: the next worker, which has terminated, is joined; after the
\* last one the pool is destroyed and 0 is returned
pool_delete_join(w) ==
    /\ UNCHANGED <<ncalls, layoutvars>>
    /\ ~aborted /\ ~deleted
    /\ w \in Spawned
    /\ \A x \in Spawned : wpc[x] \in ShutdownPositions
    /\ \A x \in 1 .. w - 1 : wpc[x] = "cancelled"
    /\ wpc[w] \in {"terminated", "terminated_locked"}
    /\ wpc' = [wpc EXCEPT ![w] = "cancelled"]
    /\ IF w = spawned_count
       THEN deleted' = TRUE /\ rc' = <<"pool_delete", OK>>
       ELSE UNCHANGED deleted /\ rc' = NoReturn
    /\ UNCHANGED <<taskvars, tmax, queue, spawned_count, free_count, wtask, pc,
                   out, aborted>>

\* The cancellation is acted on inside pthread_cond_wait (line 149): the
\* worker takes queue_lock again
worker_cancelled(w) ==
    /\ UNCHANGED <<ncalls, layoutvars>>
    /\ ~aborted
    /\ wpc[w] = "cancel_requested"
    /\ ~ShutdownLockHeld
    /\ wpc' = [wpc EXCEPT ![w] = "cancel_locked"]
    /\ rc' = NoReturn
    /\ UNCHANGED <<taskvars, poolvars, wtask, pc, out, aborted>>

\* The clean-up handlers run and the thread terminates
worker_cleanup(w) ==
    /\ UNCHANGED <<ncalls, layoutvars>>
    /\ ~aborted
    /\ wpc[w] = "cancel_locked"
    /\ wpc' = [wpc EXCEPT ![w] = deferred_mutex_unlock(w)]
    /\ rc' = NoReturn
    /\ UNCHANGED <<taskvars, poolvars, wtask, pc, out, aborted>>

\* thread_pool_delete on a pool that has tasks, or that never had a worker
pool_delete_at_once ==
    /\ ~ShutdownBegun
    /\ delete_fail(queue, spawned_count, free_count) # 0 \/ spawned_count = 0
    /\ thread_pool_delete

ShutdownWorkerStep(w) ==
    \/ ~ShutdownLockHeld /\ worker_iteration(w)
    \/ ~ShutdownLockHeld /\ worker_wakeup(w)
    \/ worker_pickup(w)
    \/ worker_run(w)
    \/ worker_cancelled(w)
    \/ worker_cleanup(w)

ShutdownDeleteStep ==
    \/ \E w \in Workers : pool_delete_cancel(w)
    \/ \E w \in Workers : pool_delete_join(w)

ShutdownNext ==
    \/ \E t \in Tasks : ~ShutdownBegun /\ caller_push(t)
    \/ \E t \in Tasks : caller_join(t)
    \/ \E t \in Tasks : JoinStep(t)
    \/ \E w \in Workers : ShutdownWorkerStep(w)
    \/ \E w \in Workers : spurious_wakeup(w)
    \/ \E w \in Workers : pool_delete_check(w)
    \/ ShutdownDeleteStep
    \/ pool_delete_at_once

\* Fair scheduling of the workers, the joiners and the deleting thread
ShutdownSpec ==
    /\ Init /\ [][ShutdownNext]_vars
    /\ \A w \in Workers : WF_vars(ShutdownWorkerStep(w))
    /\ \A t \in Tasks : WF_vars(JoinStep(t))
    /\ WF_vars(ShutdownDeleteStep)

----
(* Callers that also look at their tasks: thread_task_delete in any state   *)
(* of a task whose storage still exists (a ghost included, until the worker *)
(* frees it), thread_task_is_finished and thread_task_is_running.           *)

\* The owner of t may read the task: no call of its own is in progress and
\* the storage has not been freed
OwnerMayRead(t) ==
    /\ ~aborted
    /\ pc[t] = "idle" /\ ~freed[t]
    /\ FirstUseInOrder(t)

\* thread_task_delete called on a task that was detached and not yet freed
thread_task_delete_detached(t) ==
    /\ Call
    /\ OwnerMayRead(t)
    /\ IsGhost(t)
    /\ task_delete_body(t)

\* A test that still says "finished" after the join
is_finished_or_joined(s) == s \in {TASK_STATE_COMPLETED, TASK_STATE_JOINED}

\* line 327
is_finished(s) == s = TASK_STATE_COMPLETED

\* line 341
is_running(s) == s = TASK_STATE_RUNNING

\* thread_task_is_finished, lines 319-328; the return records the task asked
thread_task_is_finished(t) ==
    /\ Call
    /\ OwnerMayRead(t)
    /\ rc' = <<"is_finished", is_finished(state[t]), t>>
    /\ UNCHANGED <<taskvars, poolvars, workervars, pc, out, aborted>>

\* thread_task_is_running, lines 330-346
thread_task_is_running(t) ==
    /\ Call
    /\ OwnerMayRead(t)
    /\ rc' = <<"is_running", is_running(state[t]), t>>
    /\ UNCHANGED <<taskvars, poolvars, workervars, pc, out, aborted>>

QueryNext ==
    \/ DetachProtocolNext
    \/ \E t \in Tasks : thread_task_delete(t)
    \/ \E t \in Tasks : thread_task_delete_detached(t)
    \/ \E t \in Tasks : thread_task_is_finished(t)
    \/ \E t \in Tasks : thread_task_is_running(t)

QuerySpec == Init /\ [][QueryNext]_vars

----
(* The remaining-time arithmetic of futexp_timed_wait_for, for a word that
   does not take the awaited value while the call lasts *)

\* Seconds on the clock and in a timeout
MaxSec == 2

NsecValues == {0, 300 * 1000 * 1000, NSEC_PER_SEC - 1}

Timespecs == {Timespec(sec, nsec) : sec \in 0 .. MaxSec, nsec \in NsecValues}

\* CLOCK_MONOTONIC: a is not later than b
NotLater(a, b) ==
    \/ a.tv_sec < b.tv_sec
    \/ a.tv_sec = b.tv_sec /\ a.tv_nsec <= b.tv_nsec

\* line 33: the borrow sets *underflow when the seconds are equal
underflows(sec) == sec = 0

\* The difference and whether `*underflow = true` was executed
timespec_diff(a, b) ==
    LET sec == a.tv_sec - b.tv_sec
        nsec == a.tv_nsec - b.tv_nsec
    IN IF nsec < 0
       THEN [tv_sec |-> sec - 1, tv_nsec |-> nsec + NSEC_PER_SEC,
             underflow |-> underflows(sec)]
       ELSE [tv_sec |-> sec, tv_nsec |-> nsec, underflow |-> FALSE]

\* FUTEX_WAIT refuses a timeout that is no valid timespec with EINVAL
timespec_valid(ts) ==
    ts.tv_sec >= 0 /\ ts.tv_nsec >= 0 /\ ts.tv_nsec < NSEC_PER_SEC

\* thread_task_timed_join has built ttm and futexp_timed_wait_for has copied
\* it and read the clock (lines 43-47)
TimedWaitInit ==
    /\ InitPoolAndTasks
    /\ arg = [t \in Tasks |-> t % 2]
    /\ tmax = 1
    /\ cq = circular_queue_init
    /\ \E timeout \in Timespecs, start \in Timespecs :
           tw = [timeout |-> timeout, start |-> start, now |-> start,
                 remaining |-> timeout, errno |-> NoErrno, at |-> "loop"]

\* lines 60-72: the clock is read and the remaining time computed; the inner
\* subtraction is handed no flag to set
futex_recheck ==
    /\ ~aborted
    /\ tw.at = "loop"
    /\ \E now \in Timespecs :
          /\ NotLater(tw.now, now)
          /\ LET elapsed == timespec_diff(now, tw.start)
                 diff == timespec_diff(tw.timeout, Timespec(elapsed.tv_sec, elapsed.tv_nsec))
             IN /\ aborted' = elapsed.underflow
                /\ tw' = [tw EXCEPT
                            !.now = now,
                            !.remaining = Timespec(diff.tv_sec, diff.tv_nsec),
                            !.errno = IF diff.underflow THEN ETIMEDOUT ELSE @,
                            !.at = IF elapsed.underflow THEN "loop"
                                   ELSE IF diff.underflow THEN "returned"
                                   ELSE "wait"]
    /\ UNCHANGED <<taskvars, poolvars, workervars, pc, out, rc, ncalls, cq>>

\* lines 74-84: FUTEX_WAIT with the remaining time returns 0, EAGAIN or EINTR
\* (back to the load), or fails with ETIMEDOUT, or with EINVAL for a timeout
\* that is no valid timespec
futex_timed_wait ==
    /\ ~aborted
    /\ tw.at = "wait"
    /\ IF timespec_valid(tw.remaining)
       THEN \/ tw' = [tw EXCEPT !.errno = ETIMEDOUT, !.at = "returned"]
            \/ \E e \in {tw.errno, "EAGAIN", "EINTR"} :
                  tw' = [tw EXCEPT !.errno = e, !.at = "loop"]
       ELSE tw' = [tw EXCEPT !.errno = EINVAL, !.at = "returned"]
    /\ UNCHANGED <<taskvars, poolvars, workervars, pc, out, rc, aborted, ncalls, cq>>

\* thread_pool.c lines 395-399: the wait returned non-zero
timed_join_error_return ==
    /\ ~aborted
    /\ tw.at = "returned"
    /\ aborted' = (tw.errno # ETIMEDOUT)
    /\ rc' = IF tw.errno = ETIMEDOUT THEN <<"timed_join", TPOOL_ERR_TIMEOUT>> ELSE rc
    /\ tw' = [tw EXCEPT !.at = "done"]
    /\ UNCHANGED <<taskvars, poolvars, workervars, pc, out, ncalls, cq>>

TimedWaitNext == futex_recheck \/ futex_timed_wait \/ timed_join_error_return

TimedWaitSpec == TimedWaitInit /\ [][TimedWaitNext]_vars

----
(* circular_queue.c call by call, next to the FIFO the pool's actions use:
   `cq` is the struct, `queue` the sequence of the elements pushed and not
   yet popped, oldest first *)

\* The elements between head and tail, in the order of the indices
cq_contents(q) ==
    [i \in 1 .. cq_size(q) |-> q.data[(q.head + i - 1) % q.dcapacity]]

\* The call that is made as the n-th pushes the value n
QueueValues == 1 .. MaxQueueOps

\* circular_queue_push; malloc may fail when the array has to grow, and then
\* nothing is pushed
queue_push ==
    /\ ncalls < MaxQueueOps
    /\ ncalls' = ncalls + 1
    /\ \E val \in QueueValues :
          /\ val = ncalls + 1
          /\ \/ /\ cq' = cq_push(cq, val)
                /\ queue' = circular_queue_push(queue, val)
                /\ rc' = <<"circular_queue_push", 0>>
             \/ /\ cq_is_full(cq)
                /\ UNCHANGED <<cq, queue>>
                /\ rc' = <<"circular_queue_push", CQ_ERR_NO_MEM>>
    /\ UNCHANGED <<taskvars, tmax, spawned_count, free_count, deleted,
                   workervars, pc, out, aborted, tw>>

\* circular_queue_pop, which the worker calls after it found
\* circular_queue_size non-zero
queue_pop ==
    /\ ncalls < MaxQueueOps
    /\ ncalls' = ncalls + 1
    /\ cq_size(cq) # 0
    /\ cq' = cq_pop(cq)
    /\ queue' = circular_queue_pop(queue)
    /\ rc' = <<"circular_queue_pop", cq_pop_result(cq)>>
    /\ UNCHANGED <<taskvars, tmax, spawned_count, free_count, deleted,
                   workervars, pc, out, aborted, tw>>

QueueNext == queue_push \/ queue_pop

\* The pool around the queue takes no step
QueueInit == Init /\ tmax = 1

QueueSpec == QueueInit /\ [][QueueNext]_vars

----
(* Properties *)

PushedStates == {TASK_STATE_PUSHED, TASK_STATE_PUSHED_GHOST}
RunningStates == {TASK_STATE_RUNNING, TASK_STATE_RUNNING_GHOST}

\* The workers that popped a task and have not yet declared it finished
HeldBy(t) == {w \in Workers : wtask[w] = t /\ wpc[w] \in {"popped", "pickup_ghost", "run", "top"}}

\* A pushed task that is neither COMPLETED nor, for a ghost, freed
Unfinished(t) == InQueue(t) \/ HeldBy(t) # {} \/ state[t] \in PushedStates \cup RunningStates

\* C1: thread_pool_delete returns ok, and destroys the pool, only in a state
\* where no pushed task is unfinished: with a task queued, or popped and not
\* yet COMPLETED (or freed, for a ghost), it returns has_tasks.
C1_DeleteOkOnlyWhenAllFinished ==
    /\ rc = <<"pool_delete", OK>> => \A t \in Tasks : ~Unfinished(t)
    /\ deleted => \A t \in Tasks : ~Unfinished(t)
    /\ rc = <<"pool_delete", OK>> => deleted

\* C1 witness: a delete returned has_tasks while the queue was empty and a
\* worker was inside the task function
C1_Witness ==
    /\ rc = <<"pool_delete", TPOOL_ERR_HAS_TASKS>>
    /\ queue = <<>>
    /\ \E w \in Workers : wpc[w] = "run" /\ state[wtask[w]] = TASK_STATE_RUNNING

\* The legal changes of a task's state word
LegalTransitions ==
    { <<TASK_STATE_CREATED, TASK_STATE_PUSHED>>,
      <<TASK_STATE_PUSHED, TASK_STATE_PUSHED_GHOST>>,
      <<TASK_STATE_PUSHED, TASK_STATE_RUNNING>>,
      <<TASK_STATE_PUSHED_GHOST, TASK_STATE_RUNNING_GHOST>>,
      <<TASK_STATE_RUNNING, TASK_STATE_RUNNING_GHOST>>,
      <<TASK_STATE_RUNNING, TASK_STATE_COMPLETED>>,
      <<TASK_STATE_RUNNING_GHOST, TASK_STATE_JOINED>>,
      <<TASK_STATE_COMPLETED, TASK_STATE_JOINED>>,
      <<TASK_STATE_JOINED, TASK_STATE_PUSHED>> }

C3_JoinDeliversResult ==
    [][\A t \in Tasks :
          (pc[t] = "join_cas" /\ pc'[t] = "idle") =>
              /\ rc' = <<"join", OK>>
              /\ out'[t] = <<task_function(arg[t])>>
              /\ \A u \in Tasks \ {t} : out'[u] = out[u]]_vars

\* C3 witness: a join has just returned, and two joined tasks hold two
\* different results
C3_Witness ==
    /\ rc = <<"join", OK>>
    /\ \E t, u \in Tasks :
          /\ state[t] = TASK_STATE_JOINED /\ state[u] = TASK_STATE_JOINED
          /\ out[t] # Uninit /\ out[u] # Uninit
          /\ out[t] # out[u]

\* C4: under fair scheduling every pushed task reaches COMPLETED and every
\* join that began returns with the task joined
C4_PushedCompletesJoinReturns ==
    \A t \in Tasks :
        /\ (state[t] = TASK_STATE_PUSHED) ~> (state[t] = TASK_STATE_COMPLETED)
        /\ (pc[t] = "join_wait") ~> (pc[t] = "idle" /\ state[t] = TASK_STATE_JOINED)

\* C4 witness: as many tasks as the queue can hold were pushed, run and joined
C4_Witness ==
    /\ Cardinality({t \in Tasks : state[t] = TASK_STATE_JOINED /\ out[t] # Uninit})
           >= TPOOL_MAX_TASKS
    /\ \A t \in Tasks : pc[t] = "idle"
    /\ queue = <<>>

\* C5: 0 <= free_count <= spawned_count <= tmax in every reachable state
C5_CountersInRange ==
    /\ 0 <= free_count
    /\ free_count <= spawned_count
    /\ spawned_count <= tmax

\* C5 witness: a push was accepted with no free worker and the ceiling
\* reached, and spawned nothing
C5_Witness ==
    /\ rc = <<"push", OK>>
    /\ free_count = 0
    /\ spawned_count = tmax
    /\ Len(queue) > 0
    /\ \A w \in Workers : w <= tmax => wpc[w] = "run"

\* C6 as stated: a task is in the ready queue iff its state is PUSHED or
\* PUSHED_GHOST
C6_QueuedIffPushed ==
    \A t \in Tasks : InQueue(t) <=> state[t] \in PushedStates

\* C6 amended: every queued task is PUSHED or PUSHED_GHOST, and every task in
\* PUSHED or PUSHED_GHOST is in the queue or is the task a worker has popped
\* and not yet picked up
C6_QueuedOrPoppedIffPushed ==
    \A t \in Tasks :
        /\ InQueue(t) => state[t] \in PushedStates
        /\ state[t] \in PushedStates =>
              \/ InQueue(t)
              \/ \E w \in Workers : wtask[w] = t /\ wpc[w] \in {"popped", "pickup_ghost"}

\* C6 witness: a worker has popped a task whose state is still PUSHED
C6_Witness ==
    \E w \in Workers :
        /\ wpc[w] = "popped"
        /\ state[wtask[w]] = TASK_STATE_PUSHED
        /\ ~InQueue(wtask[w])

\* Every task that was pushed has been joined, none was detached or deleted,
\* and no call is in progress
AllJoined ==
    /\ \A t \in Tasks : pc[t] = "idle" /\ ~freed[t]
                        /\ state[t] \in {TASK_STATE_CREATED, TASK_STATE_JOINED}
    /\ \E t \in Tasks : state[t] = TASK_STATE_JOINED

\* C7: once every pushed task has been joined, thread_pool_delete returns ok
\* and not has_tasks
C7_DeleteOkAfterAllJoined ==
    AllJoined => rc # <<"pool_delete", TPOOL_ERR_HAS_TASKS>>

\* C7 witness: two workers were spawned, every pushed task was joined, and
\* thread_pool_delete returned ok
C7_Witness ==
    /\ AllJoined
    /\ spawned_count = 2
    /\ rc = <<"pool_delete", OK>>

\* C8: a push of a CREATED or JOINED task with room in the queue returns ok,
\* makes the task PUSHED and appends it at the tail once; a push returns ok
\* exactly when it enqueues
C8_PushEnqueuesAtTail ==
    [][\A t \in Tasks :
          thread_pool_push_task(t) =>
              /\ (state[t] \in {TASK_STATE_CREATED, TASK_STATE_JOINED}
                      /\ Len(queue) < TPOOL_MAX_TASKS) =>
                    /\ rc' = <<"push", OK>>
                    /\ state' = [state EXCEPT ![t] = TASK_STATE_PUSHED]
                    /\ queue' = Append(queue, t)
              /\ rc' = <<"push", OK>> <=> queue' # queue
              /\ queue' # queue => queue' = Append(queue, t)]_vars

\* C8 witness: a push returned ok with a task already waiting in the queue
C8_Witness ==
    /\ rc = <<"push", OK>>
    /\ Len(queue) >= 2

\* C9: a push returns too_many_tasks exactly when the queue already holds
\* TPOOL_MAX_TASKS entries, and then changes no task state, nor the queue,
\* nor the counters; the queue never holds more than TPOOL_MAX_TASKS entries
C9_TooManyTasks ==
    [][/\ Len(queue) <= TPOOL_MAX_TASKS
       /\ Len(queue') <= TPOOL_MAX_TASKS
       /\ \A t \in Tasks :
             thread_pool_push_task(t) =>
                 /\ rc' = <<"push", TPOOL_ERR_TOO_MANY_TASKS>>
                        <=> Len(queue) >= TPOOL_MAX_TASKS
                 /\ rc' = <<"push", TPOOL_ERR_TOO_MANY_TASKS>> =>
                        /\ state' = state
                        /\ queue' = queue
                        /\ spawned_count' = spawned_count
                        /\ free_count' = free_count]_vars

\* C9 witness: a push of a task that was never pushed returned too_many_tasks
C9_Witness ==
    /\ rc = <<"push", TPOOL_ERR_TOO_MANY_TASKS>>
    /\ Len(queue) = TPOOL_MAX_TASKS
    /\ \E t \in Tasks : state[t] = TASK_STATE_CREATED /\ ~freed[t]

\* C10: with room in the queue, a push returns invalid_repush exactly when the
\* task is neither CREATED nor JOINED, and then changes no task state and
\* leaves the queue as it was
C10_InvalidRepush ==
    [][\A t \in Tasks :
          (thread_pool_push_task(t) /\ Len(queue) < TPOOL_MAX_TASKS) =>
              /\ rc' = <<"push", TPOOL_ERR_INVALID_REPUSH>>
                     <=> state[t] \notin {TASK_STATE_CREATED, TASK_STATE_JOINED}
              /\ rc' = <<"push", TPOOL_ERR_INVALID_REPUSH>> =>
                     /\ state' = state
                     /\ queue' = queue]_vars

\* C10 witness: a push of a COMPLETED task that nobody joined returned
\* invalid_repush
C10_Witness ==
    /\ rc = <<"push", TPOOL_ERR_INVALID_REPUSH>>
    /\ \E t \in Tasks : state[t] = TASK_STATE_COMPLETED /\ pc[t] = "idle"

\* C11: a push spawns a worker only if it enqueued the task, and then exactly
\* when free_count = 0 and spawned_count < tmax; a push that returns
\* too_many_tasks or invalid_repush leaves spawned_count unchanged; a push
\* spawns at most one worker
C11_SpawnOnlyWhenEnqueued ==
    [][\A t \in Tasks :
          thread_pool_push_task(t) =>
              /\ spawned_count' \in {spawned_count, spawned_count + 1}
              /\ spawned_count' # spawned_count <=>
                    /\ rc' = <<"push", OK>>
                    /\ free_count = 0
                    /\ spawned_count < tmax
              /\ rc' # <<"push", OK>> => spawned_count' = spawned_count]_vars

\* C11 witness: an accepted push spawned the second worker
C11_Witness ==
    /\ rc = <<"push", OK>>
    /\ spawned_count = 2
    /\ wpc[2] = "top"
    /\ Len(queue) > 0

\* The pool has one worker and that worker is inside the task function (the
\* function is blocked on a gate), and a push was just refused for capacity
GateRefusal ==
    /\ tmax = 1
    /\ wpc[1] = "run"
    /\ rc = <<"push", TPOOL_ERR_TOO_MANY_TASKS>>

\* The pushes accepted behind the running task: the only worker pops nothing
\* while it is inside the function, so each of them is still PUSHED
AcceptedBehindGate == {t \in Tasks : state[t] \in PushedStates}

\* C12 as stated: at the refusal the number of pushes that were accepted
\* behind the running task is TPOOL_MAX_TASKS - 1
C12_GateCountIsMaxTasksMinusOne ==
    GateRefusal => Cardinality(AcceptedBehindGate) = TPOOL_MAX_TASKS - 1

\* C12 amended: at the refusal the number of pushes that were accepted behind
\* the running task is TPOOL_MAX_TASKS; the running task holds no queue entry
C12_GateCountIsMaxTasks ==
    GateRefusal =>
        /\ Cardinality(AcceptedBehindGate) = TPOOL_MAX_TASKS
        /\ Len(queue) = TPOOL_MAX_TASKS
        /\ ~InQueue(wtask[1])

\* C12 witness: one worker, its task running and not detached, every other
\* task accepted behind it, and the next push refused
C12_Witness ==
    /\ GateRefusal
    /\ state[wtask[1]] = TASK_STATE_RUNNING
    /\ AcceptedBehindGate = Tasks \ {wtask[1]}
    /\ \A t \in Tasks : state[t] # TASK_STATE_PUSHED_GHOST

\* C13: thread_pool_delete returns has_tasks exactly when the queue is not
\* empty or spawned_count differs from free_count, and then changes nothing:
\* no worker is cancelled and the queue, the counters and the tasks are as
\* they were
C13_HasTasksChangesNothing ==
    [][thread_pool_delete =>
          /\ rc' = <<"pool_delete", TPOOL_ERR_HAS_TASKS>>
                 <=> (Len(queue) # 0 \/ spawned_count # free_count)
          /\ rc' = <<"pool_delete", TPOOL_ERR_HAS_TASKS>> =>
                 /\ UNCHANGED <<taskvars, poolvars, workervars>>
                 /\ UNCHANGED <<pc, out, aborted>>]_vars

\* C13 witness: thread_pool_delete returned has_tasks with every spawned
\* worker free and a task waiting in the queue
C13_Witness ==
    /\ rc = <<"pool_delete", TPOOL_ERR_HAS_TASKS>>
    /\ Len(queue) > 0
    /\ spawned_count = free_count
    /\ ~deleted

\* C14: thread_task_join, thread_task_timed_join and thread_task_detach on a
\* CREATED task return not_pushed in the step of the call, without waiting,
\* and leave the task's state and storage as they were
C14_NotPushedOnCreated ==
    [][\A t \in Tasks :
          state[t] = TASK_STATE_CREATED =>
              /\ thread_task_join(t) =>
                    /\ rc' = <<"join", TPOOL_ERR_TASK_NOT_PUSHED>>
                    /\ pc'[t] = "idle"
                    /\ UNCHANGED <<taskvars, out>>
              /\ thread_task_timed_join(t) =>
                    /\ rc' = <<"timed_join", TPOOL_ERR_TASK_NOT_PUSHED>>
                    /\ pc'[t] = "idle"
                    /\ UNCHANGED <<taskvars, out>>
              /\ thread_task_detach(t) =>
                    /\ rc' = <<"detach", TPOOL_ERR_TASK_NOT_PUSHED>>
                    /\ pc'[t] = "idle"
                    /\ UNCHANGED <<taskvars, out>>]_vars

\* C14 witness: a timed join of a task that was never pushed returned
\* not_pushed while another task was in the pool
C14_Witness ==
    /\ rc = <<"timed_join", TPOOL_ERR_TASK_NOT_PUSHED>>
    /\ \E t, u \in Tasks :
          /\ state[t] = TASK_STATE_CREATED /\ pc[t] = "idle" /\ ~freed[t]
          /\ state[u] = TASK_STATE_RUNNING

\* C15: thread_task_join returns ok only from a task that is COMPLETED: from
\* the return of its wait to its compare-and-swap the task stays COMPLETED,
\* so the compare-and-swap succeeds, the assertion after it does not fail and
\* the task is JOINED on return; every COMPLETED -> JOINED change is made by
\* the one caller that is inside a join or a detach of that task
C15_JoinCasSucceeds ==
    [][\A t \in Tasks :
          /\ (pc[t] = "join_cas" /\ pc'[t] # "join_cas") =>
                /\ state[t] = TASK_STATE_COMPLETED
                /\ state'[t] = TASK_STATE_JOINED
                /\ rc' = <<"join", OK>>
                /\ pc'[t] = "idle"
          /\ pc[t] = "join_cas" => state[t] = TASK_STATE_COMPLETED
          /\ pc'[t] = "join_cas" => state'[t] = TASK_STATE_COMPLETED
          /\ rc' = <<"join", OK>> =>
                \E u \in Tasks : state[u] = TASK_STATE_COMPLETED
                                 /\ state'[u] = TASK_STATE_JOINED
          /\ (state[t] = TASK_STATE_COMPLETED /\ state'[t] = TASK_STATE_JOINED) =>
                /\ pc[t] \in {"join_cas", "detach_completed"}
                /\ pc'[t] = "idle"
                /\ \A u \in Tasks \ {t} : state'[u] = state[u]]_vars

\* C15 witness: a join returned ok, its task is JOINED, and a second task
\* is COMPLETED and not yet joined
C15_Witness ==
    /\ rc = <<"join", OK>>
    /\ \E t, u \in Tasks :
          /\ state[t] = TASK_STATE_JOINED /\ out[t] # Uninit /\ pc[t] = "idle"
          /\ state[u] = TASK_STATE_COMPLETED

DetachPositions == {"detach_running", "detach_completed"}

\* The three changes a detach may make
DetachTransitions ==
    { <<TASK_STATE_PUSHED, TASK_STATE_PUSHED_GHOST>>,
      <<TASK_STATE_RUNNING, TASK_STATE_RUNNING_GHOST>>,
      <<TASK_STATE_COMPLETED, TASK_STATE_JOINED>> }

\* C17: a detach of a task that is PUSHED, RUNNING or COMPLETED makes exactly
\* one of its three transitions and returns ok, however its steps interleave
\* with the worker's pickup and completion; the task is freed with the third;
\* the assertion at the end of detach fails for no such task
C17_DetachMakesOneTransition ==
    [][\A t \in Tasks :
          \* nobody moves the task to JOINED under a detach in progress
          /\ (state'[t] = TASK_STATE_JOINED /\ state[t] # TASK_STATE_JOINED) =>
                pc'[t] \notin DetachPositions
          \* the first compare-and-swap
          /\ (thread_task_detach(t)
                 /\ state[t] \in {TASK_STATE_PUSHED, TASK_STATE_RUNNING, TASK_STATE_COMPLETED}) =>
                \/ /\ rc' = <<"detach", OK>>
                   /\ state[t] = TASK_STATE_PUSHED
                   /\ state' = [state EXCEPT ![t] = TASK_STATE_PUSHED_GHOST]
                \/ /\ pc'[t] = "detach_running"
                   /\ state[t] \in {TASK_STATE_RUNNING, TASK_STATE_COMPLETED}
                   /\ state' = state
          \* what the second and the third compare-and-swap find
          /\ (pc[t] = "detach_running" /\ state[t] # TASK_STATE_JOINED) =>
                state[t] \in {TASK_STATE_RUNNING, TASK_STATE_COMPLETED}
          /\ (pc[t] = "detach_completed" /\ state[t] # TASK_STATE_JOINED) =>
                state[t] = TASK_STATE_COMPLETED
          \* the return
          /\ (pc[t] \in DetachPositions /\ pc'[t] = "idle") =>
                /\ rc' = <<"detach", OK>>
                /\ <<state[t], state'[t]>> \in DetachTransitions
                /\ \A u \in Tasks \ {t} : state'[u] = state[u]
                /\ freed'[t] <=> state'[t] = TASK_STATE_JOINED
          \* the assertion
          /\ (~aborted /\ aborted' /\ pc[t] \in DetachPositions) =>
                \E u \in Tasks : pc[u] = "detach_completed"
                                 /\ state[u] = TASK_STATE_JOINED]_vars

\* C17 witness: a detach that began on a RUNNING task lost the race with the
\* worker's completion and is about to make its third transition
C17_Witness ==
    \E t \in Tasks :
        /\ pc[t] = "detach_completed"
        /\ state[t] = TASK_STATE_COMPLETED

\* C18: thread_task_detach returns ok or not_pushed and nothing else, and no
\* detach of a task that is not a ghost ends in the failed assertion
C18_DetachReturnsOkOrNotPushed ==
    /\ rc[1] = "detach" => rc[2] \in {OK, TPOOL_ERR_TASK_NOT_PUSHED}
    /\ \A t \in Tasks : pc[t] \in DetachPositions => ~aborted

\* C18 witness: a detach returned not_pushed while another task, detached in
\* the queue, waits for a worker
C18_Witness ==
    /\ rc = <<"detach", TPOOL_ERR_TASK_NOT_PUSHED>>
    /\ \E u \in Tasks : state[u] = TASK_STATE_PUSHED_GHOST

\* A worker is about to declare task t finished
WorkerFinishes(t) == \E w \in Workers : wpc[w] = "top" /\ wtask[w] = t

\* C19: the storage of a task is freed by one agent in one step: by the
\* worker that ran it when it is RUNNING_GHOST at its completion, by the
\* detacher when its third compare-and-swap finds it COMPLETED, or (a task
\* that was not detached) by the owner's thread_task_delete; the worker frees
\* no task that is not a ghost; a freed task is referenced by no worker, no
\* queue entry and no call in progress, so it is not freed again
C19_FreedOnceByOneAgent ==
    [][\A t \in Tasks :
          /\ (~freed[t] /\ freed'[t]) =>
                \/ /\ WorkerFinishes(t)
                   /\ state[t] = TASK_STATE_RUNNING_GHOST
                   /\ state'[t] = TASK_STATE_JOINED
                   /\ pc[t] = "idle"
                \/ /\ pc[t] = "detach_completed" /\ pc'[t] = "idle"
                   /\ state[t] = TASK_STATE_COMPLETED
                   /\ state'[t] = TASK_STATE_JOINED
                   /\ ~WorkerFinishes(t)
                \/ /\ rc' = <<"task_delete", OK>>
                   /\ pc[t] = "idle"
                   /\ state[t] \in {TASK_STATE_CREATED, TASK_STATE_JOINED}
                   /\ ~WorkerFinishes(t)
          /\ (WorkerFinishes(t) /\ state[t] # TASK_STATE_RUNNING_GHOST) =>
                freed'[t] = freed[t]
          /\ freed[t] =>
                /\ freed'[t]
                /\ state'[t] = state[t]
                /\ ~InQueue(t)
                /\ \A w \in Workers : wtask[w] # t
                /\ pc[t] = "idle"]_vars

\* C19 witness: after one push and one detach and nothing else, the worker
\* that ran the task has freed it and is free
C19_Witness ==
    /\ ncalls = 2
    /\ rc = NoReturn
    /\ free_count = spawned_count
    /\ \E t \in Tasks : freed[t] /\ state[t] = TASK_STATE_JOINED

\* The pool is idle: nothing is queued and every spawned worker is free, which
\* is where thread_pool_delete finds nothing to refuse
PoolIdle ==
    /\ queue = <<>>
    /\ free_count = spawned_count
    /\ delete_fail(queue, spawned_count, free_count) = 0

\* C20: with fair scheduling and callers that follow the protocol, a task
\* whose detach made it a ghost is eventually freed, no thread aborts, and
\* after every detach that returns ok the pool eventually is idle (empty
\* queue, free_count = spawned_count), where thread_pool_delete returns ok
\* and no ghost is left
C20_DetachedIsFreedAndPoolDrains ==
    /\ \A t \in Tasks : IsGhost(t) ~> freed[t]
    /\ (rc = <<"detach", OK>>) ~> PoolIdle
    /\ [](PoolIdle => \A t \in Tasks : ~IsGhost(t))
    /\ [](rc = <<"pool_delete", OK>> => PoolIdle)
    /\ [](~aborted)

\* C20 witness: after a push and a detach that returned ok, the task has run
\* and its storage is freed, and thread_pool_delete has returned ok
C20_Witness ==
    /\ rc = <<"pool_delete", OK>>
    /\ ncalls = 3
    /\ \E t \in Tasks : freed[t] /\ state[t] = TASK_STATE_JOINED /\ ret[t] # Uninit

\* C21: thread_task_delete frees the task and returns ok exactly when the
\* task is CREATED or JOINED; in PUSHED, RUNNING, COMPLETED and the ghost
\* states it returns in_pool and changes nothing; so a delete after a join
\* that returned ok returns ok, and a delete of a pushed task that was not
\* joined returns in_pool
C21_DeleteOkIffCreatedOrJoined ==
    [][\A t \in Tasks :
          (thread_task_delete(t) \/ thread_task_delete_detached(t)) =>
             /\ ~freed[t]
             /\ IF state[t] \in {TASK_STATE_CREATED, TASK_STATE_JOINED}
                THEN /\ rc' = <<"task_delete", OK>>
                     /\ freed' = [freed EXCEPT ![t] = TRUE]
                ELSE /\ rc' = <<"task_delete", TPOOL_ERR_TASK_IN_POOL>>
                     /\ freed' = freed
             /\ UNCHANGED <<state, arg, ret, poolvars, workervars, pc, out>>
             /\ (out[t] # Uninit /\ state[t] = TASK_STATE_JOINED)
                   => rc'[2] = OK
             /\ state[t] \in PushedStates \cup RunningStates
                              \cup {TASK_STATE_COMPLETED}
                   => rc'[2] = TPOOL_ERR_TASK_IN_POOL]_vars

\* C21 witness: one task was pushed and detached, and the third call, a
\* delete of that task while a worker runs it as a ghost, returned in_pool
C21_Witness ==
    /\ rc = <<"task_delete", TPOOL_ERR_TASK_IN_POOL>>
    /\ ncalls = 3
    /\ \E t \in Tasks :
          /\ state[t] = TASK_STATE_RUNNING_GHOST /\ ~freed[t]
          /\ \A u \in Tasks \ {t} : state[u] = TASK_STATE_CREATED /\ ~freed[u]

\* C22: a push of a JOINED task (the queue not being full) returns ok, moves
\* the task to PUSHED and appends it to the queue, where it was not; the
\* worker that runs it stores function(argument) anew, the argument stays as
\* it is from the push to the join, and the join that follows a first join
\* delivers function(argument); a push of a COMPLETED task changes neither
\* the task nor the queue and does not return ok
C22_RepushRoundTrip ==
    [][\A t \in Tasks :
          /\ (caller_push(t) /\ state[t] = TASK_STATE_JOINED
                /\ circular_queue_size(queue) < TPOOL_MAX_TASKS) =>
                /\ rc' = <<"push", OK>>
                /\ state'[t] = TASK_STATE_PUSHED
                /\ ~InQueue(t)
                /\ queue' = Append(queue, t)
          /\ (\E w \in Workers : worker_run(w) /\ wtask[w] = t) =>
                /\ state[t] = TASK_STATE_RUNNING
                /\ ret'[t] = <<task_function(arg[t])>>
          /\ state[t] \in {TASK_STATE_PUSHED, TASK_STATE_RUNNING, TASK_STATE_COMPLETED}
                => arg'[t] = arg[t]
          /\ (pc[t] = "join_cas" /\ pc'[t] = "idle" /\ out[t] # Uninit) =>
                /\ rc' = <<"join", OK>>
                /\ out'[t] = <<task_function(arg[t])>>
          /\ caller_push_unjoined(t) =>
                /\ rc'[2] \in {TPOOL_ERR_INVALID_REPUSH, TPOOL_ERR_TOO_MANY_TASKS}
                /\ state' = state /\ queue' = queue]_vars

\* C22 witness: a task that was joined once, with the result of the first run
\* delivered, has been pushed and run again on a changed argument and is
\* COMPLETED with the new result, which differs from the first
C22_Witness ==
    \E t \in Tasks :
        /\ state[t] = TASK_STATE_COMPLETED
        /\ out[t] # Uninit
        /\ ret[t] = <<task_function(arg[t])>>
        /\ ret[t] # out[t]

\* C23: thread_task_is_finished returns true exactly when the task is
\* COMPLETED at the load (false before completion, false for a ghost, false
\* once joined), thread_task_is_running returns true exactly when the task is
\* RUNNING, and neither call changes the task, the pool or a worker
C23_QueriesReadTheState ==
    [][\A t \in Tasks :
          /\ thread_task_is_finished(t) =>
                /\ rc' = <<"is_finished", state[t] = TASK_STATE_COMPLETED, t>>
                /\ UNCHANGED <<taskvars, poolvars, workervars, pc, out>>
          /\ thread_task_is_running(t) =>
                /\ rc' = <<"is_running", state[t] = TASK_STATE_RUNNING, t>>
                /\ UNCHANGED <<taskvars, poolvars, workervars, pc, out>>]_vars

\* C23 witness: thread_task_is_finished has returned false for a task that
\* was run and joined
C23_Witness ==
    \E t \in Tasks :
        /\ rc = <<"is_finished", FALSE, t>>
        /\ state[t] = TASK_STATE_JOINED
        /\ out[t] # Uninit

\* C24: thread_pool_new returns invalid_argument and creates nothing exactly
\* when max_thread_count <= 0 or max_thread_count > TPOOL_MAX_THREADS;
\* otherwise it returns ok with a pool of that tmax whose queue is empty and
\* whose spawned_count and free_count are 0, no worker existing; a worker is
\* created by a push only
C24_NewChecksThreadCount ==
    [][/\ \A m \in ThreadCounts :
             thread_pool_new(m) =>
                IF m <= 0 \/ m > TPOOL_MAX_THREADS
                THEN /\ rc' = <<"pool_new", TPOOL_ERR_INVALID_ARGUMENT>>
                     /\ deleted'
                     /\ UNCHANGED <<taskvars, poolvars, workervars, pc, out>>
                ELSE /\ rc' = <<"pool_new", OK>>
                     /\ ~deleted'
                     /\ tmax' = m
                     /\ queue' = <<>>
                     /\ spawned_count' = 0 /\ free_count' = 0
                     /\ \A w \in Workers : wpc'[w] = "none"
       /\ spawned_count' > spawned_count => rc' = <<"push", OK>>
       /\ deleted => queue = <<>> /\ free_count = spawned_count]_vars

\* C24 witness: a pool of the largest thread count was created and deleted,
\* and thread_pool_new has then refused a thread count, so that no pool exists
C24_Witness ==
    /\ rc = <<"pool_new", TPOOL_ERR_INVALID_ARGUMENT>>
    /\ deleted
    /\ tmax = TPOOL_MAX_THREADS
    /\ ncalls = 3

\* C25: with callers that follow the protocol no assertion of the worker
\* fails: a task a worker popped is PUSHED or PUSHED_GHOST until the pickup,
\* and PUSHED_GHOST when the first pickup compare-and-swap failed; a task a
\* worker ran is RUNNING or RUNNING_GHOST until the completion, and
\* RUNNING_GHOST when the first completion compare-and-swap failed, wherever
\* the detach falls
C25_WorkerAssertionsHold ==
    /\ ~aborted
    /\ \A w \in Workers :
          /\ wpc[w] = "popped" => state[wtask[w]] \in PushedStates
          /\ wpc[w] = "pickup_ghost" => state[wtask[w]] = TASK_STATE_PUSHED_GHOST
          /\ wpc[w] = "run" => state[wtask[w]] \in RunningStates
          /\ (wpc[w] = "top" /\ wtask[w] # NoTask)
                => state[wtask[w]] \in RunningStates
          /\ wpc[w] = "complete_second"
                => state[wtask[w]] = TASK_STATE_RUNNING_GHOST

\* C25 witness: the first completion compare-and-swap of a worker failed on
\* a task that was detached while it ran, and another worker's first pickup
\* compare-and-swap failed on a task detached while it was queued
C25_Witness ==
    \E w, x \in Workers :
        /\ wpc[w] = "complete_second"
        /\ wpc[x] = "pickup_ghost"

\* How many entries of the ready queue refer to task t
QueueEntries(t) == Cardinality({i \in 1 .. Len(queue) : queue[i] = t})

\* C26: a pushed task has exactly one holder, a queue entry or one worker,
\* from its push to its completion, and a task that is not pushed has none;
\* the task enters RUNNING or RUNNING_GHOST by the pickup of the worker that
\* popped it; the result is written only by the worker that holds the picked
\* task, once, while the task is RUNNING or RUNNING_GHOST, and that worker
\* then declares the task finished; under fair scheduling every pushed task
\* is run
C26_RunExactlyOnce ==
    /\ [](\A t \in Tasks :
            QueueEntries(t) + Cardinality(HeldBy(t))
               = IF state[t] \in PushedStates \cup RunningStates THEN 1 ELSE 0)
    /\ [][\A t \in Tasks :
            /\ (state[t] \notin RunningStates /\ state'[t] \in RunningStates) =>
                  \E w \in Workers :
                     /\ wtask[w] = t /\ wpc[w] \in {"popped", "pickup_ghost"}
                     /\ wpc'[w] = "run"
                     /\ state[t] \in PushedStates
            /\ ret'[t] # ret[t] =>
                  \E w \in Workers :
                     /\ wtask[w] = t /\ wpc[w] = "run" /\ wpc'[w] = "top"
                     /\ state[t] \in RunningStates /\ state'[t] = state[t]
                     /\ ret'[t] = <<task_function(arg[t])>>
            /\ (state[t] \in RunningStates /\ state'[t] \notin RunningStates) =>
                  \E w \in Workers :
                     /\ wtask[w] = t /\ wpc[w] = "top"
                     /\ ret' = ret]_vars
    /\ [][\A w \in Workers :
            /\ (wpc[w] = "run" /\ wpc'[w] # "run") =>
                  /\ wpc'[w] = "top" /\ wtask'[w] = wtask[w]
                  /\ ret'[wtask[w]] = <<task_function(arg[wtask[w]])>>
            /\ (wpc[w] = "top" /\ wtask[w] # NoTask /\ wpc'[w] # "top") =>
                  state'[wtask[w]] \in {TASK_STATE_COMPLETED, TASK_STATE_JOINED}]_vars
    /\ \A t \in Tasks :
          (state[t] \in PushedStates) ~> (\E w \in Workers : wpc[w] = "top" /\ wtask[w] = t)

\* C26 witness: two workers have each run a task of their own, one of them a
\* ghost, and both results are written
C26_Witness ==
    \E t, u \in Tasks :
        /\ t # u
        /\ state[t] = TASK_STATE_RUNNING /\ state[u] = TASK_STATE_RUNNING_GHOST
        /\ ret[t] # Uninit /\ ret[u] # Uninit
        /\ HeldBy(t) # HeldBy(u)
        /\ \A w \in HeldBy(t) \cup HeldBy(u) : wpc[w] = "top"

\* A worker's compare-and-swap on the word of t succeeded and its FUTEX_WAKE
\* is still to come
WakePending(t) ==
    \E w \in Workers : wpc[w] \in {"pickup_wake", "complete_wake"} /\ wtask[w] = t

\* The owner of t is inside futexp_timed_wait_for
InFutexWait(t) == pc[t] \in FutexLoopTop \cup FutexAsleep \cup DOMAIN futex_cur

\* C27: every change of a state word is followed by a wake of the threads
\* asleep on it (a worker's change by the worker's next step; the owner's
\* own changes find nobody asleep); a joiner is asleep only while the word
\* holds PUSHED or RUNNING or the wake of the last change is still to come;
\* and under fair scheduling a joiner inside the wait, the task being
\* COMPLETED, returns from the wait and the join returns
C27_NoLostWakeupForJoiners ==
    /\ [][\A t \in Tasks :
            state'[t] # state[t] =>
               \/ \E w \in Workers :
                     /\ wtask[w] = t
                     /\ wpc'[w] \in {"pickup_wake", "complete_wake"}
               \/ pc[t] \notin FutexAsleep \cup DOMAIN futex_cur]_vars
    /\ [][\A w \in Workers :
            (wpc[w] \in {"pickup_wake", "complete_wake"} /\ wpc'[w] # wpc[w]) =>
               pc'[wtask[w]] \notin FutexAsleep]_vars
    /\ [](\A t \in Tasks :
            pc[t] \in FutexAsleep =>
               \/ state[t] \in {TASK_STATE_PUSHED, TASK_STATE_RUNNING}
               \/ WakePending(t))
    /\ \A t \in Tasks :
          (InFutexWait(t) /\ state[t] = TASK_STATE_COMPLETED)
             ~> (pc[t] = "idle" /\ state[t] = TASK_STATE_JOINED)

\* C27 witness: the joiner fell asleep on RUNNING, the worker's completion
\* compare-and-swap has made the word COMPLETED, and the wake is still to come
C27_Witness ==
    \E t \in Tasks :
        /\ pc[t] = "futex_asleep"
        /\ state[t] = TASK_STATE_COMPLETED
        /\ WakePending(t)

\* The workers blocked in pthread_cond_wait with no signal delivered to them
BlockedWorkers == {w \in Workers : wpc[w] = "waiting"}

\* The workers that will take queue_lock without a further signal
ComingWorkers == {w \in Workers : wpc[w] \in {"top", "woken", "popped", "pickup_ghost", "run"}}

\* C28: while a task is in the ready queue some worker is on its way to the
\* lock (never are all spawned workers blocked in the condition wait); a
\* worker enters the condition wait only with the queue empty; a push that
\* finds a blocked worker unblocks one; and under fair scheduling every
\* queued task is popped, in particular when a worker is idle
C28_NoLostWakeupForWorkers ==
    /\ [](queue # <<>> => ComingWorkers # {})
    /\ [][\A w \in Workers :
            (wpc[w] # "waiting" /\ wpc'[w] = "waiting") => queue = <<>>]_vars
    /\ [][(rc' = <<"push", OK>> /\ BlockedWorkers # {}) =>
            \E w \in BlockedWorkers : wpc'[w] = "woken"]_vars
    /\ \A t \in Tasks :
          /\ InQueue(t) ~> ~InQueue(t)
          /\ (InQueue(t) /\ BlockedWorkers # {}) ~> (\E w \in Workers : wtask[w] = t)

\* C28 witness: a push has returned ok, two tasks are queued, and a worker
\* that a push unblocked from the condition wait has yet to take the lock
C28_Witness ==
    /\ rc = <<"push", OK>>
    /\ Len(queue) = 2
    /\ \E w \in Workers : wpc[w] = "woken"

\* C29: once thread_pool_delete has passed its check (no push following),
\* every worker is cancelled while it is in the condition wait with no task
\* in hand, the queue being empty; at most one cancelled worker holds
\* queue_lock at a time and each has released it when it has terminated;
\* thread_pool_delete returns ok with every spawned worker joined and the
\* lock held by nobody; and under fair scheduling it does return
C29_ShutdownProtocol ==
    /\ [][\A w \in Workers :
            (wpc[w] # "cancel_requested" /\ wpc'[w] = "cancel_requested") =>
               /\ wpc[w] \in {"waiting", "woken"}
               /\ wtask[w] = NoTask
               /\ queue = <<>>
               /\ free_count = spawned_count]_vars
    /\ [](Cardinality({w \in Workers : wpc[w] \in {"cancel_locked", "terminated_locked"}}) <= 1)
    /\ [](\A w \in Workers : wpc[w] # "terminated_locked")
    /\ [](ShutdownBegun =>
            /\ queue = <<>>
            /\ \A w \in Spawned : wtask[w] = NoTask
            /\ \A w \in Spawned : wpc[w] \in ShutdownPositions \cup {"waiting", "woken"})
    /\ [](deleted => /\ \A w \in Spawned : wpc[w] = "cancelled"
                     /\ ~ShutdownLockHeld)
    /\ ShutdownBegun ~> deleted

\* C29 witness: thread_pool_delete has returned ok after cancelling and
\* joining as many workers as the pool may have
C29_Witness ==
    /\ rc = <<"pool_delete", OK>>
    /\ deleted
    /\ spawned_count = TPOOL_MAX_THREADS
    /\ \A w \in Spawned : wpc[w] = "cancelled"

\* C30: the wait returns 0 only in a load that finds the awaited value:
\* the thread passes to the caller's compare-and-swap only from the top of
\* the loop, with the word COMPLETED; a thread woken by a change of the
\* word, refused with EAGAIN or interrupted goes back to the load, and
\* sleeps again only if the word still holds what it loaded; a timeout ends
\* the call with an error, never with 0; and a call that finds the awaited
\* value at its first load returns without entering FUTEX_WAIT
C30_WaitReturnsOnlyOnAwaitedValue ==
    [][\A t \in Tasks :
          /\ (pc[t] \notin {"join_cas", "timed_join_cas"}
                 /\ pc'[t] \in {"join_cas", "timed_join_cas"}) =>
                /\ pc[t] \in FutexLoopTop
                /\ state[t] = TASK_STATE_COMPLETED
                /\ state'[t] = TASK_STATE_COMPLETED
          /\ (pc[t] \in FutexAsleep /\ pc'[t] # pc[t]) =>
                \/ pc'[t] \in FutexLoopTop
                \/ /\ pc[t] = "timed_futex_asleep"
                   /\ pc'[t] = "idle"
                   /\ rc' = <<"timed_join", TPOOL_ERR_TIMEOUT>>
          /\ (pc[t] \in DOMAIN futex_cur /\ pc'[t] # pc[t]) =>
                \/ pc'[t] \in FutexLoopTop
                \/ pc'[t] \in FutexAsleep /\ state[t] = futex_cur[pc[t]]
          /\ (pc[t] \in FutexLoopTop /\ state[t] = TASK_STATE_COMPLETED
                 /\ pc'[t] # pc[t]) =>
                pc'[t] \in {"join_cas", "timed_join_cas"}
          /\ (pc[t] \in FutexLoopTop /\ state[t] # TASK_STATE_COMPLETED
                 /\ pc'[t] # pc[t]) =>
                \/ pc'[t] \in DOMAIN futex_cur /\ futex_cur[pc'[t]] = state[t]
                \/ /\ pc[t] = "timed_join_wait"
                   /\ pc'[t] = "idle"
                   /\ rc' = <<"timed_join", TPOOL_ERR_TIMEOUT>>
          /\ FutexTimed(pc[t]) /\ pc'[t] # "idle" => FutexTimed(pc'[t]) \/ pc'[t] = "timed_join_cas"]_vars

\* C30 witness: a thread in a wait with a timeout is asleep, the worker has
\* changed the word to RUNNING, which is not the awaited value, and the
\* worker's wake is about to reach the sleeper
C30_Witness ==
    \E t \in Tasks :
        /\ pc[t] = "timed_futex_asleep"
        /\ state[t] = TASK_STATE_RUNNING
        /\ WakePending(t)

\* The sum of two well-formed timespecs
timespec_sum(a, b) ==
    Timespec(a.tv_sec + b.tv_sec + (a.tv_nsec + b.tv_nsec) \div NSEC_PER_SEC,
             (a.tv_nsec + b.tv_nsec) % NSEC_PER_SEC)

\* The moment the timeout of the call in progress is over
Deadline == timespec_sum(tw.start, tw.timeout)

\* C31: at every re-check of a timed wait, elapsed > timeout makes the call
\* report a timeout, and otherwise the duration handed to FUTEX_WAIT is
\* timeout - elapsed as a timespec with tv_sec >= 0 and 0 <= tv_nsec < 10^9;
\* no other duration is handed on, so the call fails with ETIMEDOUT only and
\* the assertion of thread_task_timed_join holds
C31_RemainingTimeIsWellFormed ==
    /\ tw.at = "returned" => tw.errno = ETIMEDOUT
    /\ tw.at = "wait" =>
          /\ NotLater(tw.now, Deadline)
          /\ timespec_valid(tw.remaining)
          /\ timespec_sum(tw.now, tw.remaining) = Deadline
    /\ ~aborted

\* A re-check one whole second or more after the deadline: the negative
\* duration went to FUTEX_WAIT, EINVAL came back and the assertion failed
C31_Witness ==
    /\ aborted
    /\ tw.errno = EINVAL
    /\ tw.remaining.tv_sec < 0
    /\ ~NotLater(tw.now, Deadline)

\* The array was reallocated in this step
Reallocated == cq'.dcapacity # cq.dcapacity

\* C32: for every sequence of pushes and pops (a pop only of a non-empty
\* queue) the circular queue is the unbounded FIFO: its elements between
\* head and tail are the elements pushed and not yet popped in the order of
\* their pushes, across wrap-around and reallocation with head > tail; its
\* size is their number; every pop returns the oldest of them
C32_QueueIsAFifo ==
    /\ [](cq_contents(cq) = queue /\ cq_size(cq) = circular_queue_size(queue))
    /\ [][queue_pop => rc' = <<"circular_queue_pop", circular_queue_front(queue)>>]_vars

\* The array was reallocated while wrapped around (head was 2, tail 1), and
\* the elements pushed before, around and after the reallocation have since
\* been popped in order up to the one pushed by the reallocating call
C32_Witness ==
    /\ cq.dcapacity = 2 * CQ_INITIAL_CAPACITY
    /\ rc = <<"circular_queue_pop", 12>>
    /\ cq.head = CQ_INITIAL_CAPACITY
    /\ queue = <<>>
    /\ ncalls = 20

\* C39: head and tail are indices of the array and at most dcapacity - 1
\* elements are stored; the array is reallocated only by a push that finds
\* (tail + 1) mod dcapacity = head, to twice its capacity, and the
\* reallocation leaves head = 0, tail = the size and the elements in their
\* order (the push then stores its value at that tail)
C39_QueueStructure ==
    /\ [](/\ cq.head >= 0 /\ cq.head < cq.dcapacity
          /\ cq.tail >= 0 /\ cq.tail < cq.dcapacity
          /\ cq_size(cq) <= cq.dcapacity - 1
          /\ cq_is_full(cq) =>
                LET r == cq_realloc(cq, cq.dcapacity * 2)
                IN /\ r.dcapacity = 2 * cq.dcapacity
                   /\ r.head = 0
                   /\ r.tail = cq_size(cq)
                   /\ cq_contents(r) = cq_contents(cq))
    /\ [][Reallocated =>
             /\ queue_push
             /\ (cq.tail + 1) % cq.dcapacity = cq.head
             /\ cq'.dcapacity = 2 * cq.dcapacity
             /\ cq'.head = 0
             /\ cq'.tail = cq_size(cq) + 1
             /\ SubSeq(cq_contents(cq'), 1, cq_size(cq)) = cq_contents(cq)]_vars

\* The push that found the array full while it was wrapped around (two
\* elements had been pushed and popped, seven more pushed) has just grown it
C39_Witness ==
    /\ cq.dcapacity = 2 * CQ_INITIAL_CAPACITY
    /\ cq.head = 0
    /\ cq.tail = CQ_INITIAL_CAPACITY
    /\ queue = <<5, 6, 7, 8, 9, 10, 11, 12>>
    /\ rc = <<"circular_queue_push", 0>>

\* The fields of struct thread_pool that queue_lock protects
ProtectedFields == <<queue, spawned_count, free_count>>

\* Steps that run between pthread_mutex_lock and pthread_mutex_unlock of
\* queue_lock in the stepping thread
CriticalSectionStep ==
    \/ \E t \in Tasks : thread_pool_push_task(t)
    \/ \E w \in Workers : worker_iteration(w) \/ worker_wakeup(w)
    \/ thread_pool_delete

\* The loop tests `i < pool->spawned_count` of thread_pool_delete
DeleteLoopStep ==
    \E w \in Workers : pool_delete_cancel(w) \/ pool_delete_join(w)

\* queue_lock is held by a worker that was cancelled in pthread_cond_wait
LockHeldByWorker == \E w \in Workers : wpc[w] = "cancel_locked"

\* thread_pool_delete is between its unlock (line 212) and its return
InDeleteLoops == \E w \in Workers : wpc[w] \in ShutdownPositions

C34_NoLockWhileRunning ==
    /\ [](\A w \in Workers :
             wpc[w] \in {"popped", "pickup_ghost", "run"} => wpc[w] \notin LockPositions)
    /\ \A w \in Workers :
          (wpc[w] \notin {"none", "waiting", "cancelled"})
              ~> (wpc[w] \in {"waiting", "cancelled"})

\* The function of task 1, running in worker 1, has pushed the nested task
\* to its own pool and has not returned yet
C34_Witness ==
    /\ wpc[1] = "run" /\ wtask[1] = 1
    /\ rc = <<"push", OK>>
    /\ state[NestedTask] = TASK_STATE_PUSHED
    /\ InQueue(NestedTask)

\* A worker loads, compare-and-swaps or wakes the state word of its task, or
\* stores the result in it
WorkerTouchesTask(w) ==
    \/ futex_worker_pickup(w)
    \/ futex_worker_complete(w)
    \/ futex_worker_wake(w)
    \/ worker_run(w)

\* The owner, inside thread_task_join, loads or compare-and-swaps the state
\* word of its task, sleeps on it or reads the result
JoinerTouchesTask(t) ==
    \/ futex_load(t)
    \/ futex_wait_enter(t)
    \/ join_finish(t)

\* C35: with the compare-and-swap and the wake that follows it as separate
\* steps, and every owner using the API legally, no thread loads,
\* compare-and-swaps, writes the result of or wakes the state word of a task
\* whose storage was freed
C35_NoTouchAfterFree ==
    [][/\ \A w \in Workers : WorkerTouchesTask(w) => ~freed[wtask[w]]
       /\ \A t \in Tasks : JoinerTouchesTask(t) => ~freed[t]]_vars

\* The worker has published COMPLETED and not yet called FUTEX_WAKE; the
\* owner's join has returned meanwhile and thread_task_delete has freed the
\* task
C35_Witness ==
    \E w \in Workers :
        /\ wpc[w] = "complete_wake"
        /\ freed[wtask[w]]
        /\ state[wtask[w]] = TASK_STATE_JOINED
        /\ rc = <<"task_delete", OK>>

\* Every spawned worker is inside a task function (line 166)
AllWorkersOccupied == \A w \in Spawned : wpc[w] = "run"

\* C36 as stated: whenever a task waits in the queue and every spawned worker
\* is executing a task function, spawned_count = max_workers
C36_NoTaskBehindBusyWorkers ==
    (circular_queue_size(queue) > 0 /\ AllWorkersOccupied) => spawned_count = tmax

\* C36, amended: the pool grows at a push only; a push that enqueues its task
\* and finds no worker counted free spawns one unless spawned_count =
\* max_workers, and a push that finds a worker counted free spawns none, also
\* when that worker is about to take an earlier task
C36_PushSpawnsUnlessFreeOrFull ==
    [][\A t \in Tasks :
          (thread_pool_push_task(t) /\ rc' = <<"push", OK>>) =>
              IF free_count = 0 /\ spawned_count < tmax
              THEN spawned_count' = spawned_count + 1
              ELSE spawned_count' = spawned_count]_vars

\* Two tasks were pushed while the only worker was counted free; it took the
\* first and runs it, the second waits behind it, and a second worker could
\* have been spawned
C36_Witness ==
    /\ tmax = 2 /\ spawned_count = 1
    /\ wpc[1] = "run" /\ wtask[1] = 1
    /\ queue = <<2>>
    /\ free_count = 0

\* C37: spawned_count never exceeds the number of successful pushes that
\* found no idle worker: it grows only in a push that returns 0 and found
\* free_count = 0, and then by one (so a producer that joins each task before
\* it pushes the next, whose pushes after the first find the worker free,
\* has one worker)
C37_SpawnsOnlyAtAcceptedPushes ==
    [][spawned_count' # spawned_count =>
          \E t \in Tasks :
              /\ thread_pool_push_task(t)
              /\ rc' = <<"push", OK>>
              /\ free_count = 0
              /\ spawned_count' = spawned_count + 1]_vars

\* One task was pushed once with success; a second push of it, refused as
\* invalid_repush, has spawned the second worker
C37_Witness ==
    /\ rc = <<"push", TPOOL_ERR_INVALID_REPUSH>>
    /\ spawned_count = 2
    /\ ncalls = 2
    /\ \A t \in Tasks \ {1} : state[t] = TASK_STATE_CREATED

\* C38: every reference in the queue is to a task in state PUSHED or
\* PUSHED_GHOST and no task is referenced twice; a task enters the queue only
\* by a push that finds it CREATED or JOINED, so a task a worker has popped is
\* not in the queue while the worker holds it and returns there only after it
\* was joined and pushed again
C38_QueueHoldsPushedTasksOnce ==
    /\ [](/\ \A i \in 1 .. Len(queue) : state[queue[i]] \in PushedStates
          /\ \A i, j \in 1 .. Len(queue) : queue[i] = queue[j] => i = j
          /\ \A w \in Workers : wtask[w] # NoTask => ~InQueue(wtask[w]))
    /\ [][\A t \in Tasks :
             (InQueue(t)' /\ ~InQueue(t)) =>
                 /\ thread_pool_push_task(t)
                 /\ state[t] \in {TASK_STATE_CREATED, TASK_STATE_JOINED}
                 /\ \A w \in Workers : wtask[w] # t]_vars

\* A task that was popped, run, joined and pushed again waits in the queue
\* next to a task that was detached while queued
C38_Witness ==
    /\ Len(queue) = 2
    /\ \E i \in 1 .. 2 : state[queue[i]] = TASK_STATE_PUSHED_GHOST
    /\ \E i \in 1 .. 2 : state[queue[i]] = TASK_STATE_PUSHED /\ ret[queue[i]] # Uninit

====
